---- MODULE Spec2Model ----
(***************************************************************************)
(* State-machine model of the family-calendar mobile front end: the voice  *)
(* hooks (useConversationalVoice, useChoresVoiceAssistant), the calendar   *)
(* context, TodayView, ChoresModal and AuthProvider.                       *)
(*                                                                         *)
(* Every async function invocation is a record in a bag of in-flight       *)
(* tasks; its pc names the await it is suspended at.  An action is the     *)
(* synchronous run of code between two awaits (JavaScript runs it to       *)
(* completion), including the React effects the state change triggers.     *)
(***************************************************************************)
EXTENDS Integers, Sequences, FiniteSets, Bags, TLC

\* ---------------------------------------------------------------- bounds
\* user gestures (taps) in one run, and those of them on the floating mic
MaxTaps == 3
MaxMicTaps == 2
\* recordings the platform hands out in one run
MaxRecordings == 2
\* distinct conversation ids the backend hands out
MaxConvIds == 1
\* distinct dates the backend can name in queried_date (0 is "today")
MaxDate == 1
\* status requests of the metering interval that may be pending at once
MaxPendingTicks == 1
\* distinct tokens the backend hands out, distinct e-mail addresses typed
MaxTokens == 2
MaxEmails == 2
\* asynchronous operations in flight at once and gestures in one run, in the
\* specifications of the whole app
MaxInFlight == 1
MaxAppTaps == 2
\* weekday phrases in one text given to extractDateFromText
MaxNamed == 2
\* page transitions started by one pan gesture
MaxTransitions == 2

\* ------------------------------------------------------ program constants
\* metering interval period (ms) and the silence that triggers auto-stop
MeterPeriod == 200
SilenceLimit == 3000
\* page indices set by the voice navigation
TodayPage == 0
WeekPage == 1
MonthPage == 2
NumPages == 3

VARIABLES
  auth,        \* AuthProvider: token, user, loading
  storage,     \* AsyncStorage: the stored 'token' and 'user' items
  authTasks,   \* in-flight invocations of the mount effect, login, logout
  submitting,  \* AuthScreen: a submit is in progress
  lastLogin,   \* history: token and user of the login that last returned
               \* true with no logout called since it was submitted
  cv,          \* useConversationalVoice: isListening, isProcessing,
               \* conversationId, recordingRef, meteringIntervalRef
  cvTasks,     \* in-flight async invocations of the hook (bag)
  silence,     \* silenceDuration of each startListening closure
  intervals,   \* metering intervals that have not been cleared
  recorders,   \* platform: recordings created and not yet unloaded
  nextRec,     \* platform: number of recordings created so far
  currentPage, selectedDate, monthRange,   \* CalendarContext
  tv,          \* TodayView (mounted while currentPage = 0): events, loading, error
  tvTasks,     \* getEvents calls in flight, each with its effect's mounted flag
  showChores,  \* AppContent: the chores modal is mounted
  cmGen,       \* which mount of ChoresModal is the current one
  cm,          \* ChoresModal: chores, loading, error, newChore, creating, feedback
  cmTasks,     \* ChoresModal: getChores calls and chore mutations in flight
  ca,          \* useChoresVoiceAssistant: isListening, isProcessing, recordingRef
  caTasks,     \* in-flight async invocations of the chores voice hook
  vc,          \* VoiceCommandView: mounted, isListening, isProcessing,
               \* recording, hasPermission, lastResponse
  vcTasks,     \* in-flight async invocations of VoiceCommandView
  alert,       \* the title of the last Alert.alert shown ("" when none)
  chat,        \* ConversationalVoiceView: mounted, isListening, isProcessing,
               \* recording, hasPermission, conversationId, conversation
  chatTasks,   \* in-flight async invocations of ConversationalVoiceView
  isSwiping,   \* AppContent: a page transition is in progress
  anims,       \* withTiming animations running, each with the page its
               \* completion callback sets
  pan,         \* the pan gesture: the finger is down (active); history: the
               \* transitions this gesture has started and seen completed
  taps,        \* number of user gestures so far (all), of taps on the
               \* floating mic (mic)
  ev           \* the last step taken (history)

authVars == <<auth, storage, authTasks, submitting, lastLogin>>
voiceVars == <<cv, cvTasks, silence, intervals>>
platVars == <<recorders, nextRec>>
navVars == <<currentPage, selectedDate, monthRange>>
todayVars == <<tv, tvTasks>>
modalVars == <<showChores, cmGen, cm, cmTasks>>
caVars == <<ca, caTasks>>
vcVars == <<vc, vcTasks, alert>>
chatVars == <<chat, chatTasks>>
swipeVars == <<isSwiping, anims, pan>>

vars == <<authVars, voiceVars, platVars, navVars, todayVars, modalVars, caVars,
          vcVars, chatVars, swipeVars, taps, ev>>

NoRec == 0
NoConv == 0
Dates == 1..MaxDate
Views == {"none", "week", "month"}

\* sequences of at most two dates: the queried_date field
DateLists == {<<>>} \cup {<<a>> : a \in Dates} \cup {<<a, b>> : a \in Dates, b \in Dates}

\* ConversationResponse: queried_view, queried_date, audio_url present?
Responses == [view : Views, dates : DateLists, audio : BOOLEAN]
NoRes == [view |-> "none", dates |-> <<>>, audio |-> FALSE]

Ev(op, failed, reqs) == [op |-> op, failed |-> failed, reqs |-> reqs, hist |-> <<>>]

\* an in-flight invocation: the function, the await it is suspended at, the
\* conversationId its closure captured, the recording it works on, the
\* interval it belongs to, the backend result, the steps it has done and
\* whether its permission request was answered with a grant (history: the
\* hook does not look at the answer)
Task(fn, pc, cid, rec) ==
  [fn |-> fn, pc |-> pc, cid |-> cid, rec |-> rec, iv |-> 0, res |-> NoRes,
   hist |-> <<>>, granted |-> FALSE]

Add(bag, t) == bag (+) SetToBag({t})
Del(bag, t) == bag (-) SetToBag({t})

Min(a, b) == IF a < b THEN a ELSE b

\* ---------------------------------------------- AuthProvider, AuthScreen
Null == <<>>
Tokens == {<<"token", n>> : n \in 1..MaxTokens}
Emails == {<<"user", n>> : n \in 1..MaxEmails}

authInit == [token |-> Null, user |-> Null, loading |-> TRUE]

\* out: a logout was called since the login was submitted (history)
AuthTask(fn, pc, token, user) ==
  [fn |-> fn, pc |-> pc, token |-> token, user |-> user, out |-> FALSE]

\* the pages array: the component of each page index
pages == <<"Today", "Week", "Month">>

\* currentPage clamped to the indices of pages
safeCurrentPage ==
  IF currentPage < 0 THEN 0 ELSE IF currentPage > Len(pages) - 1 THEN Len(pages) - 1
  ELSE currentPage

\* CurrentComponent = pages[safeCurrentPage].component
CurrentComponent == pages[safeCurrentPage + 1]

\* AppContent renders the pages and the floating buttons
Rendered == ~auth.loading /\ auth.token # Null

\* AppContent renders AuthScreen
AuthScreenShown == ~auth.loading /\ auth.token = Null

\* ------------------------------------------------ useConversationalVoice
cvInit ==
  [isListening |-> FALSE, isProcessing |-> FALSE, conversationId |-> NoConv,
   recordingRef |-> NoRec, meteringIntervalRef |-> 0]

\* clearSilenceTimers: clears the interval the ref names and nulls the ref
\* (silenceTimerRef is never assigned, so its branch never runs)
clearSilenceTimers(st) ==
  [st EXCEPT !.intervals = st.intervals \ {st.cv.meteringIntervalRef},
             !.cv.meteringIntervalRef = 0]

\* the hook state an operator works on
St(c, tasks, ivs) == [cv |-> c, tasks |-> tasks, intervals |-> ivs]

\* a stopListening that leaves isListening as it is
cvStopKeepsListening(st, cid) ==
  LET s1 == clearSilenceTimers(st)
  IN  IF s1.cv.recordingRef = NoRec
      THEN s1
      ELSE [s1 EXCEPT !.cv.isProcessing = TRUE,
                      !.tasks = Add(s1.tasks,
                                    Task("stop", "stopAndUnload", cid, s1.cv.recordingRef))]

\* startListening up to its first await; cid is the conversationId of the
\* render whose closure is called
cvStartListening(st, cid) ==
  LET c == [st.cv EXCEPT !.isListening = TRUE, !.isProcessing = FALSE]
      pc == IF cid = NoConv THEN "startConversation" ELSE "requestPermissions"
  IN  [st EXCEPT !.cv = c, !.tasks = Add(st.tasks, Task("start", pc, cid, NoRec))]

\* stopListening up to its first await
cvStopListening(st, cid) ==
  LET s1 == clearSilenceTimers(st)
  IN  IF s1.cv.recordingRef = NoRec
      THEN s1
      ELSE [s1 EXCEPT !.cv.isListening = FALSE, !.cv.isProcessing = TRUE,
                      !.tasks = Add(s1.tasks,
                                    Task("stop", "stopAndUnload", cid, s1.cv.recordingRef))]

\* the catch block of startListening
cvStartCatch(st) ==
  clearSilenceTimers([st EXCEPT !.cv.isListening = FALSE, !.cv.isProcessing = FALSE])

Here == St(cv, cvTasks, intervals)

\* a silenceDuration that no interval and no pending callback can read or
\* write any more is garbage: it is kept at 0
Collect(sil, st) ==
  [i \in DOMAIN sil |->
     IF i \in st.intervals \/ \E t \in DOMAIN st.tasks : t.fn = "tick" /\ t.iv = i
     THEN sil[i]
     ELSE [sil[i] EXCEPT !.ms = 0, !.run = 0]]

PutWith(sil, st) ==
  /\ cv' = st.cv
  /\ cvTasks' = st.tasks
  /\ intervals' = st.intervals
  /\ silence' = Collect(sil, st)

Put(st) == PutWith(silence, st)

\* FloatingMicButton.handlePress; the button is disabled while isProcessing
\* and lies under the chores modal while that is shown (the App that
\* renders it has no Voice page)
HandlePress ==
  /\ taps.all < MaxTaps /\ taps.mic < MaxMicTaps
  /\ Rendered /\ ~showChores /\ ~vc.mounted
  /\ ~cv.isProcessing
  /\ taps' = [all |-> taps.all + 1, mic |-> taps.mic + 1]
  /\ IF cv.isListening
     THEN /\ Put(cvStopListening(Here, cv.conversationId))
          /\ ev' = Ev("handlePress.stop", FALSE, {})
     ELSE /\ Put(cvStartListening(Here, cv.conversationId))
          /\ ev' = Ev("handlePress.start", FALSE,
                      IF cv.conversationId = NoConv THEN {"startConversation"} ELSE {})
  /\ UNCHANGED <<swipeVars, chatVars, vcVars, authVars, platVars, navVars,
                   todayVars, silence, modalVars, caVars>>

\* apiService.startConversation resolved: setConversationId
cvStartConversationResolve ==
  \E t \in DOMAIN cvTasks, id \in 1..MaxConvIds :
    /\ t.fn = "start" /\ t.pc = "startConversation"
    /\ cv' = [cv EXCEPT !.conversationId = id]
    /\ cvTasks' = Add(Del(cvTasks, t), [t EXCEPT !.pc = "requestPermissions"])
    /\ ev' = Ev("startConversation.ok", FALSE, {})
    /\ UNCHANGED <<swipeVars, chatVars, vcVars, authVars, platVars, navVars, todayVars,
                   silence, intervals, modalVars, caVars, taps>>

\* Audio.requestPermissionsAsync resolved, with the permission granted or
\* not: its result is not looked at and setAudioModeAsync is called
cvRequestPermissionsResolve ==
  \E t \in DOMAIN cvTasks, granted \in BOOLEAN :
    /\ t.fn = "start" /\ t.pc = "requestPermissions"
    /\ cvTasks' = Add(Del(cvTasks, t),
                      [t EXCEPT !.pc = "setAudioMode", !.granted = granted])
    /\ ev' = Ev("requestPermissions.ok", FALSE, {})
    /\ UNCHANGED <<swipeVars, chatVars, vcVars, authVars, platVars, navVars, todayVars, cv,
                   silence, intervals, modalVars, caVars, taps>>

\* Audio.setAudioModeAsync resolved
cvSetAudioModeResolve ==
  \E t \in DOMAIN cvTasks :
    /\ t.fn = "start" /\ t.pc = "setAudioMode"
    /\ cvTasks' = Add(Del(cvTasks, t), [t EXCEPT !.pc = "createRecording"])
    /\ ev' = Ev("setAudioMode.ok", FALSE, {})
    /\ UNCHANGED <<swipeVars, chatVars, vcVars, authVars, platVars, navVars, todayVars, cv,
                   silence, intervals, modalVars, caVars, taps>>

\* Audio.Recording.createAsync resolved: the ref is set and the metering
\* interval is started (the ref of an earlier interval is overwritten)
cvCreateRecordingResolve ==
  \E t \in DOMAIN cvTasks :
    /\ t.fn = "start" /\ t.pc = "createRecording"
    /\ nextRec < MaxRecordings
    /\ LET r == nextRec + 1 IN
       /\ nextRec' = r
       /\ recorders' = recorders \cup {r}
       /\ cv' = [cv EXCEPT !.recordingRef = r, !.meteringIntervalRef = r]
       /\ silence' = [i \in DOMAIN silence \cup {r} |->
                        IF i = r THEN [cid |-> t.cid, ms |-> 0, run |-> 0] ELSE silence[i]]
       /\ intervals' = intervals \cup {r}
    /\ cvTasks' = Del(cvTasks, t)
    /\ ev' = [Ev("createRecording.ok", FALSE, {}) EXCEPT !.hist = <<t.granted>>]
    /\ UNCHANGED <<swipeVars, chatVars, vcVars, authVars, navVars, todayVars, modalVars, caVars, taps>>

\* any await of startListening rejected: the catch block, then rethrow
cvStartThrows ==
  \E t \in DOMAIN cvTasks :
    /\ t.fn = "start"
    /\ Put(cvStartCatch(St(cv, Del(cvTasks, t), intervals)))
    /\ ev' = Ev("startListening.threw", TRUE, {})
    /\ UNCHANGED <<swipeVars, chatVars, vcVars, authVars, platVars, navVars, todayVars,
                   modalVars, caVars, taps>>

\* the metering interval fires: the callback returns at once when no
\* recording is held, else it awaits getStatusAsync of the held recording
cvMeteringTick ==
  \E i \in intervals :
    /\ cv.recordingRef # NoRec
    /\ BagCardinality([t \in {u \in DOMAIN cvTasks : u.fn = "tick"} |-> cvTasks[t]])
         < MaxPendingTicks
    /\ cvTasks' = Add(cvTasks, [Task("tick", "getStatus", silence[i].cid, cv.recordingRef)
                                 EXCEPT !.iv = i])
    /\ ev' = Ev("metering.tick", FALSE, {})
    /\ UNCHANGED <<swipeVars, chatVars, vcVars, authVars, platVars, navVars, todayVars, cv,
                   silence, intervals, modalVars, caVars, taps>>

\* a callback that never resets silenceDuration
silenceDurationNoReset(level, ms) ==
  IF level = "quiet" THEN Min(ms + MeterPeriod, SilenceLimit) ELSE ms

\* silenceDuration after a status.  level is "quiet" (metering < -50),
\* "loud", or "none" (not recording, or no metering number: the status is
\* skipped).  silenceDuration only matters through the test >= 3000, so it
\* is kept saturated at SilenceLimit.
silenceDuration(level, ms) ==
  IF level = "quiet" THEN Min(ms + MeterPeriod, SilenceLimit)
  ELSE IF level = "loud" THEN 0 ELSE ms

\* history: the number of metering samples below -50 in a row, counted up
\* to the number of periods in the limit
QuietRun(level, run) ==
  IF level = "quiet" THEN Min(run + 1, SilenceLimit \div MeterPeriod)
  ELSE IF level = "loud" THEN 0 ELSE run

\* getStatusAsync resolved; a recording that has been unloaded is never
\* reported as recording
cvMeteringStatus ==
  \E t \in DOMAIN cvTasks, level \in {"quiet", "loud", "none"} :
    /\ t.fn = "tick"
    /\ level # "none" => t.rec \in recorders
    /\ LET ms == silenceDuration(level, silence[t.iv].ms)
           run == QuietRun(level, silence[t.iv].run)
           st == St(cv, Del(cvTasks, t), intervals)
           sil == [silence EXCEPT ![t.iv].ms = ms, ![t.iv].run = run]
       IN  IF level = "quiet" /\ ms >= SilenceLimit
           THEN /\ PutWith(sil, cvStopListening(clearSilenceTimers(st), t.cid))
                /\ ev' = [Ev("metering.autoStop", FALSE, {}) EXCEPT !.hist = <<run, ms>>]
           ELSE /\ PutWith(sil, st)
                /\ ev' = [Ev("metering.status", FALSE, {})
                            EXCEPT !.hist = IF level = "none" THEN <<>> ELSE <<run, ms>>]
    /\ UNCHANGED <<swipeVars, chatVars, vcVars, authVars, platVars, navVars,
                   todayVars, modalVars, caVars, taps>>

\* a dispatch that looks at the date before the view
NavigateDateFirst(res) ==
  IF Len(res.dates) > 0
  THEN [page |-> TodayPage, date |-> res.dates[1], range |-> monthRange]
  ELSE IF res.view = "week"
  THEN [page |-> WeekPage, date |-> selectedDate, range |-> monthRange]
  ELSE IF res.view = "month"
  THEN [page |-> MonthPage, date |-> selectedDate, range |-> monthRange]
  ELSE [page |-> currentPage, date |-> selectedDate, range |-> monthRange]

\* the navigation dispatch of processVoiceMessage
Navigate(res) ==
  LET requestedDate == IF Len(res.dates) > 0 THEN res.dates[1] ELSE 0 IN
  IF res.view = "week"
  THEN [page |-> WeekPage, date |-> selectedDate, range |-> monthRange]
  ELSE IF res.view = "month"
  THEN [page |-> MonthPage, date |-> selectedDate,
        range |-> IF Len(res.dates) >= 2 THEN <<res.dates[1], res.dates[2]>> ELSE monthRange]
  ELSE IF requestedDate # 0
  THEN [page |-> TodayPage, date |-> requestedDate, range |-> monthRange]
  ELSE [page |-> currentPage, date |-> selectedDate, range |-> monthRange]

\* ------------------------------------------------------------- TodayView
\* events is the date the shown list was returned for (NoEvents: the
\* initial empty list)
NoEvents == -1
tvInit == [events |-> NoEvents, loading |-> TRUE, error |-> FALSE]

GetEvents(d) == [fn |-> "getEvents", date |-> d, mounted |-> TRUE]

Count(bag, t) == IF t \in DOMAIN bag THEN bag[t] ELSE 0

\* the effect's cleanup: mounted = false in the closure of every earlier run
Cleanup(bag) ==
  LET S == {[t EXCEPT !.mounted = FALSE] : t \in DOMAIN bag}
  IN  [u \in S |-> Count(bag, u) + Count(bag, [u EXCEPT !.mounted = TRUE])]

\* what a navigation does to TodayView: it is rendered only on TodayPage;
\* mounting it starts from the initial state and runs the effect, a new
\* selectedDate object reruns the effect (cleanup, setLoading, getEvents),
\* leaving the page unmounts it (cleanup)
TodayEffect(st, oldPage, nav, dateSet) ==
  IF nav.page # TodayPage
  THEN IF oldPage = TodayPage THEN [st EXCEPT !.tasks = Cleanup(st.tasks)] ELSE st
  ELSE IF oldPage # TodayPage
  THEN [tv |-> tvInit, tasks |-> Add(Cleanup(st.tasks), GetEvents(nav.date))]
  ELSE IF dateSet
  THEN [tv |-> [st.tv EXCEPT !.loading = TRUE],
        tasks |-> Add(Cleanup(st.tasks), GetEvents(nav.date))]
  ELSE st

\* an effect without the mounted flag: every answer is applied
tvGetEventsResolveUnguarded ==
  \E t \in DOMAIN tvTasks :
    /\ tvTasks' = Del(tvTasks, t)
    /\ tv' = [events |-> t.date, loading |-> FALSE, error |-> FALSE]
    /\ ev' = Ev("getEvents.ok", FALSE, {})
    /\ UNCHANGED <<swipeVars, chatVars, vcVars, authVars, voiceVars, platVars,
                   navVars, modalVars, caVars, taps>>

\* getEvents resolved: then and finally of the effect
tvGetEventsResolve ==
  \E t \in DOMAIN tvTasks :
    /\ tvTasks' = Del(tvTasks, t)
    /\ tv' = IF t.mounted
             THEN [events |-> t.date, loading |-> FALSE, error |-> FALSE]
             ELSE tv
    /\ ev' = Ev(IF t.mounted THEN "getEvents.ok" ELSE "getEvents.ignored", FALSE, {})
    /\ UNCHANGED <<swipeVars, chatVars, vcVars, authVars, voiceVars, platVars,
                   navVars, modalVars, caVars, taps>>

\* getEvents rejected: catch and finally of the effect
tvGetEventsReject ==
  \E t \in DOMAIN tvTasks :
    /\ tvTasks' = Del(tvTasks, t)
    /\ tv' = IF t.mounted
             THEN [tv EXCEPT !.loading = FALSE, !.error = TRUE]
             ELSE tv
    /\ ev' = Ev(IF t.mounted THEN "getEvents.failed" ELSE "getEvents.ignored", TRUE, {})
    /\ UNCHANGED <<swipeVars, chatVars, vcVars, authVars, voiceVars, platVars,
                   navVars, modalVars, caVars, taps>>

\* the pages mount when AppContent starts rendering them: TodayView, when
\* it is the current page, starts from its initial state and runs its effect
MountPages(st) ==
  IF currentPage = TodayPage
  THEN [tv |-> tvInit, tasks |-> Add(st.tasks, GetEvents(selectedDate))]
  ELSE st

Today == [tv |-> tv, tasks |-> tvTasks]

PutToday(st) ==
  /\ tv' = st.tv
  /\ tvTasks' = st.tasks

\* an AppContent without the loading gate
ScreenNoLoading ==
  IF auth.token = Null THEN {"AuthScreen"}
  ELSE {"pages", "FloatingMicButton", "FloatingChoresButton"}
         \cup (IF showChores THEN {"ChoresModal"} ELSE {})

\* what AppContent returns: null while loading, AuthScreen without a token,
\* else the header, the current page in the PanGestureHandler, the two
\* floating buttons and, with showChores, the ChoresModal
Screen ==
  IF auth.loading THEN {}
  ELSE IF auth.token = Null THEN {"AuthScreen"}
  ELSE {"pages", "FloatingMicButton", "FloatingChoresButton"}
         \cup (IF showChores THEN {"ChoresModal"} ELSE {})

\* AuthProvider mount effect: getItem('token') resolved, getItem('user') is
\* called (storage answers in call order, so it reads the value of now)
authLoadToken ==
  \E t \in DOMAIN authTasks :
    /\ t.fn = "load" /\ t.pc = "getToken"
    /\ authTasks' = Add(Del(authTasks, t), [t EXCEPT !.pc = "getUser", !.user = storage.user])
    /\ ev' = Ev("load.getToken", FALSE, {})
    /\ UNCHANGED <<swipeVars, chatVars, vcVars, auth, storage, submitting, lastLogin, voiceVars, platVars, navVars,
                   todayVars, modalVars, caVars, taps>>

\* getItem('user') resolved: setToken, setUser, setLoading(false)
authLoadUser ==
  \E t \in DOMAIN authTasks :
    /\ t.fn = "load" /\ t.pc = "getUser"
    /\ authTasks' = Del(authTasks, t)
    /\ auth' = [token |-> IF t.token # Null THEN t.token ELSE auth.token,
                user |-> IF t.user # Null THEN t.user ELSE auth.user,
                loading |-> FALSE]
    /\ PutToday(IF auth'.token # Null THEN MountPages(Today) ELSE Today)
    /\ ev' = Ev("load.done", FALSE, IF tvTasks' # tvTasks THEN {"getEvents"} ELSE {})
    /\ UNCHANGED <<swipeVars, chatVars, vcVars, storage, submitting, lastLogin, voiceVars, platVars, navVars,
                   modalVars, caVars, taps>>

\* AuthScreen.handleSubmit in login mode: the button is disabled while
\* submitting or loading; login calls apiService.login
authSubmit ==
  \E email \in Emails :
    /\ taps.all < MaxTaps
    /\ AuthScreenShown /\ ~submitting
    /\ taps' = [taps EXCEPT !.all = @ + 1]
    /\ submitting' = TRUE
    /\ authTasks' = Add(authTasks, AuthTask("login", "request", Null, email))
    /\ ev' = Ev("submit", FALSE, {"login"})
    /\ UNCHANGED <<swipeVars, chatVars, vcVars, auth, storage, lastLogin, voiceVars, platVars, navVars, todayVars,
                   modalVars, caVars>>

\* apiService.login resolved with success and a token: setToken, setUser
\* (AuthScreen gives way to the pages) and setItem('token') is called; the
\* storage applies writes in call order, a write that will be rejected
\* stores nothing
authLoginResolve ==
  \E t \in DOMAIN authTasks, tok \in Tokens, ok \in BOOLEAN :
    /\ t.fn = "login" /\ t.pc = "request"
    /\ auth' = [auth EXCEPT !.token = tok, !.user = t.user]
    /\ storage' = IF ok THEN [storage EXCEPT !.token = tok] ELSE storage
    /\ authTasks' = Add(Del(authTasks, t),
                        [t EXCEPT !.pc = IF ok THEN "setToken" ELSE "setItemFails",
                                  !.token = tok])
    /\ submitting' = FALSE
    /\ PutToday(IF ~Rendered THEN MountPages(Today) ELSE Today)
    /\ ev' = Ev("login.ok", FALSE, IF tvTasks' # tvTasks THEN {"getEvents"} ELSE {})
    /\ UNCHANGED <<swipeVars, chatVars, vcVars, lastLogin, voiceVars, platVars, navVars, modalVars, caVars, taps>>

\* apiService.login rejected or answered without success or token: login
\* returns false and handleSubmit shows the error
authLoginRefused ==
  \E t \in DOMAIN authTasks :
    /\ t.fn = "login" /\ t.pc = "request"
    /\ authTasks' = Del(authTasks, t)
    /\ submitting' = FALSE
    /\ ev' = Ev("login.refused", TRUE, {})
    /\ UNCHANGED <<swipeVars, chatVars, vcVars, auth, storage, lastLogin, voiceVars, platVars, navVars, todayVars,
                   modalVars, caVars, taps>>

\* setItem('token') resolved: setItem('user') is called
authLoginTokenStored ==
  \E t \in DOMAIN authTasks, ok \in BOOLEAN :
    /\ t.fn = "login" /\ t.pc = "setToken"
    /\ storage' = IF ok THEN [storage EXCEPT !.user = t.user] ELSE storage
    /\ authTasks' = Add(Del(authTasks, t),
                        [t EXCEPT !.pc = IF ok THEN "setUser" ELSE "setItemFails"])
    /\ ev' = Ev("login.tokenStored", FALSE, {})
    /\ UNCHANGED <<swipeVars, chatVars, vcVars, auth, submitting, lastLogin, voiceVars, platVars, navVars, todayVars,
                   modalVars, caVars, taps>>

\* setItem('user') resolved: login returns true (the AuthScreen that
\* awaited it is no longer mounted)
authLoginDone ==
  \E t \in DOMAIN authTasks :
    /\ t.fn = "login" /\ t.pc = "setUser"
    /\ authTasks' = Del(authTasks, t)
    /\ lastLogin' = IF t.out THEN lastLogin ELSE <<t.token, t.user>>
    /\ ev' = [Ev("login.done", FALSE, {}) EXCEPT !.hist = <<t.token, t.user>>]
    /\ UNCHANGED <<swipeVars, chatVars, vcVars, auth, storage, submitting, voiceVars, platVars, navVars,
                   todayVars, modalVars, caVars, taps>>

\* a setItem rejected: the catch of login returns false
authLoginStoreThrows ==
  \E t \in DOMAIN authTasks :
    /\ t.fn = "login" /\ t.pc = "setItemFails"
    /\ authTasks' = Del(authTasks, t)
    /\ ev' = Ev("login.storeFailed", TRUE, {})
    /\ UNCHANGED <<swipeVars, chatVars, vcVars, auth, storage, submitting, lastLogin, voiceVars, platVars, navVars,
                   todayVars, modalVars, caVars, taps>>

\* history: the logins in flight have been followed by a logout
LoggedOut(bag) ==
  LET S == {[t EXCEPT !.out = TRUE] : t \in DOMAIN bag}
  IN  [u \in S |-> Count(bag, u) + Count(bag, [u EXCEPT !.out = FALSE])]

\* AuthProvider.logout: token and user are nulled (AppContent shows
\* AuthScreen, the pages unmount) and both items are removed, not awaited
authLogout ==
  /\ taps.all < MaxTaps
  /\ Rendered
  /\ taps' = [taps EXCEPT !.all = @ + 1]
  /\ auth' = [auth EXCEPT !.token = Null, !.user = Null]
  /\ storage' = [token |-> Null, user |-> Null]
  /\ submitting' = FALSE
  /\ lastLogin' = Null
  /\ authTasks' = LoggedOut(authTasks)
  /\ tv' = tv
  /\ tvTasks' = Cleanup(tvTasks)
  /\ ev' = Ev("logout", FALSE, {})
  /\ UNCHANGED <<swipeVars, chatVars, vcVars, voiceVars, platVars, navVars, modalVars, caVars>>

\* an invocation of stopListening ends; its finished history is recorded
EvEnd(op, failed, t) == [Ev(op, failed, {}) EXCEPT !.hist = t.hist]

Step(t, pc, what) == [t EXCEPT !.pc = pc, !.hist = Append(t.hist, what)]

\* stopAndUnloadAsync resolved: getURI is read through the ref as it is now
\* (a null ref throws into the catch); then the ref is nulled and, with a
\* uri, processVoiceMessage starts by fetching the file
cvStopAndUnloadResolve ==
  \E t \in DOMAIN cvTasks, hasUri \in BOOLEAN :
    /\ t.fn = "stop" /\ t.pc = "stopAndUnload"
    /\ recorders' = recorders \ {t.rec}
    /\ IF cv.recordingRef = NoRec
       THEN /\ cv' = [cv EXCEPT !.isProcessing = FALSE]
            /\ cvTasks' = Del(cvTasks, t)
            /\ ev' = EvEnd("stopListening.threw", TRUE, Step(t, "end", "stopAndUnload"))
       ELSE /\ cv' = [cv EXCEPT !.recordingRef = NoRec]
            /\ IF hasUri
               THEN /\ cvTasks' = Add(Del(cvTasks, t), Step(t, "fetchAudio", "stopAndUnload"))
                    /\ ev' = Ev("stopAndUnload.ok", FALSE, {})
               ELSE /\ cvTasks' = Del(cvTasks, t)
                    /\ ev' = EvEnd("stopListening.returned", FALSE,
                                   Step(t, "end", "stopAndUnload"))
    /\ UNCHANGED <<swipeVars, chatVars, vcVars, authVars, navVars, todayVars, silence,
                   intervals, nextRec, modalVars, caVars, taps>>

\* stopAndUnloadAsync rejected: the catch block; the platform may or may
\* not have released the recorder
cvStopAndUnloadReject ==
  \E t \in DOMAIN cvTasks, released \in BOOLEAN :
    /\ t.fn = "stop" /\ t.pc = "stopAndUnload"
    /\ recorders' = IF released THEN recorders \ {t.rec} ELSE recorders
    /\ cv' = [cv EXCEPT !.isProcessing = FALSE]
    /\ cvTasks' = Del(cvTasks, t)
    /\ ev' = EvEnd("stopListening.threw", TRUE, t)
    /\ UNCHANGED <<swipeVars, chatVars, vcVars, authVars, navVars, todayVars, silence,
                   intervals, nextRec, modalVars, caVars, taps>>

\* fetch(audioUri) resolved; a response that is not ok throws
cvFetchAudioResolve ==
  \E t \in DOMAIN cvTasks, ok \in BOOLEAN :
    /\ t.fn = "stop" /\ t.pc = "fetchAudio"
    /\ IF ok
       THEN /\ cvTasks' = Add(Del(cvTasks, t), [t EXCEPT !.pc = "blob"])
            /\ cv' = cv
            /\ ev' = Ev("fetchAudio.ok", FALSE, {})
       ELSE /\ cvTasks' = Del(cvTasks, t)
            /\ cv' = [cv EXCEPT !.isProcessing = FALSE]
            /\ ev' = EvEnd("stopListening.threw", TRUE, t)
    /\ UNCHANGED <<swipeVars, chatVars, vcVars, authVars, platVars, navVars, todayVars,
                   silence, intervals, modalVars, caVars, taps>>

\* response.blob() resolved; without a conversationId in the closure
\* 'No conversation ID' is thrown, else sendVoiceMessage is called
cvBlobResolve ==
  \E t \in DOMAIN cvTasks :
    /\ t.fn = "stop" /\ t.pc = "blob"
    /\ IF t.cid = NoConv
       THEN /\ cvTasks' = Del(cvTasks, t)
            /\ cv' = [cv EXCEPT !.isProcessing = FALSE]
            /\ ev' = EvEnd("stopListening.threw", TRUE, t)
       ELSE /\ cvTasks' = Add(Del(cvTasks, t), Step(t, "sendVoiceMessage", "sendVoiceMessage"))
            /\ cv' = cv
            /\ ev' = Ev("blob.ok", FALSE, {"sendVoiceMessage"})
    /\ UNCHANGED <<swipeVars, chatVars, vcVars, authVars, platVars, navVars, todayVars,
                   silence, intervals, modalVars, caVars, taps>>

\* a failure handler that sends the upload again
cvProcessThrowsAndResends ==
  \E t \in DOMAIN cvTasks :
    /\ t.fn = "stop" /\ t.pc = "sendVoiceMessage"
    /\ ev.op # "sendVoiceMessage.resent"
    /\ ev' = Ev("sendVoiceMessage.resent", TRUE, {"sendVoiceMessage"})
    /\ UNCHANGED <<swipeVars, chatVars, vcVars, authVars, platVars, navVars, todayVars, voiceVars,
                   modalVars, caVars, taps>>

\* an await of processVoiceMessage rejected (file fetch, blob or the
\* backend call): finally, then the catch of stopListening, then rethrow
cvProcessThrows ==
  \E t \in DOMAIN cvTasks :
    /\ t.fn = "stop" /\ t.pc \in {"fetchAudio", "blob", "sendVoiceMessage"}
    /\ cvTasks' = Del(cvTasks, t)
    /\ cv' = [cv EXCEPT !.isProcessing = FALSE]
    /\ ev' = EvEnd("stopListening.threw", TRUE, t)
    /\ UNCHANGED <<swipeVars, chatVars, vcVars, authVars, platVars, navVars, todayVars,
                   silence, intervals, modalVars, caVars, taps>>

\* a dispatch that leaves the navigation state as it is
SkipNavigation(res) ==
  /\ UNCHANGED navVars
  /\ PutToday(Today)

\* setSelectedDate, setMonthRange and setCurrentPage as processVoiceMessage
\* calls them for a response, with the TodayView effect they trigger
ApplyNavigation(res) ==
  LET nav == Navigate(res)
      dateSet == res.view = "none" /\ Len(res.dates) > 0
  IN  /\ currentPage' = nav.page
      /\ selectedDate' = nav.date
      /\ monthRange' = nav.range
      /\ PutToday(TodayEffect(Today, currentPage, nav, dateSet))

\* a getEvents call was made in this step
EventsRequested == IF tvTasks' # Cleanup(tvTasks) /\ tvTasks' # tvTasks THEN {"getEvents"} ELSE {}

\* a feedback that ignores audio_url and always speaks
SpeakAlways(t, res) == Step(t, "speak", "speak")

\* "Play audio response or TTS": playAudioResponse when the response has
\* an audio_url, else Speech.speak
Feedback(t, res) ==
  IF res.audio
  THEN Step(t, "createSound", "playAudioResponse")
  ELSE Step(t, "speak", "speak")

\* sendVoiceMessage resolved with a ConversationResponse: the navigation
\* dispatch (and the TodayView effect it triggers), then playAudioResponse
\* or Speech.speak is called and awaited
cvSendVoiceMessageResolve ==
  \E t \in DOMAIN cvTasks, res \in Responses :
    /\ t.fn = "stop" /\ t.pc = "sendVoiceMessage"
    /\ ApplyNavigation(res)
    /\ cvTasks' = Add(Del(cvTasks, t),
                      Feedback(Step(Step([t EXCEPT !.res = res], t.pc, "response"),
                                    t.pc, "navigate"), res))
    /\ ev' = Ev("sendVoiceMessage.ok", FALSE, EventsRequested)
    /\ UNCHANGED <<swipeVars, chatVars, vcVars, authVars, platVars, cv, silence, intervals,
                   modalVars, caVars, taps>>

\* the navigation of a voice response, seen from the calendar context
\* (the pipeline that delivers the response is left out)
ctxVoiceNavigation ==
  \E res \in Responses :
    /\ taps.all < MaxTaps
    /\ Rendered
    /\ taps' = [taps EXCEPT !.all = @ + 1]
    /\ ApplyNavigation(res)
    /\ ev' = Ev("navigation", FALSE, EventsRequested)
    /\ UNCHANGED <<swipeVars, chatVars, vcVars, authVars, voiceVars, platVars, modalVars, caVars>>

\* Audio.Sound.createAsync resolved: playAsync is called
cvCreateSoundResolve ==
  \E t \in DOMAIN cvTasks :
    /\ t.fn = "stop" /\ t.pc = "createSound"
    /\ cvTasks' = Add(Del(cvTasks, t), [t EXCEPT !.pc = "playAsync"])
    /\ ev' = Ev("createSound.ok", FALSE, {})
    /\ UNCHANGED <<swipeVars, chatVars, vcVars, authVars, platVars, navVars, todayVars, cv,
                   silence, intervals, modalVars, caVars, taps>>

\* sound.playAsync resolved: the audio plays; finally of processVoiceMessage
cvPlayAsyncResolve ==
  \E t \in DOMAIN cvTasks :
    /\ t.fn = "stop" /\ t.pc = "playAsync"
    /\ cvTasks' = Del(cvTasks, t)
    /\ cv' = [cv EXCEPT !.isProcessing = FALSE]
    /\ ev' = EvEnd("stopListening.done", FALSE, Step(t, "end", "played"))
    /\ UNCHANGED <<swipeVars, chatVars, vcVars, authVars, platVars, navVars, todayVars,
                   silence, intervals, modalVars, caVars, taps>>

\* creating or playing the sound rejected: playAudioResponse swallows the
\* error ("fallback to nothing"); finally of processVoiceMessage
cvPlayAudioThrows ==
  \E t \in DOMAIN cvTasks :
    /\ t.fn = "stop" /\ t.pc \in {"createSound", "playAsync"}
    /\ cvTasks' = Del(cvTasks, t)
    /\ cv' = [cv EXCEPT !.isProcessing = FALSE]
    /\ ev' = EvEnd("stopListening.done", FALSE, Step(t, "end", "playFailed"))
    /\ UNCHANGED <<swipeVars, chatVars, vcVars, authVars, platVars, navVars, todayVars,
                   silence, intervals, modalVars, caVars, taps>>

\* the await of Speech.speak continues: finally of processVoiceMessage
cvSpeakDone ==
  \E t \in DOMAIN cvTasks :
    /\ t.fn = "stop" /\ t.pc = "speak"
    /\ cvTasks' = Del(cvTasks, t)
    /\ cv' = [cv EXCEPT !.isProcessing = FALSE]
    /\ ev' = EvEnd("stopListening.done", FALSE, t)
    /\ UNCHANGED <<swipeVars, chatVars, vcVars, authVars, platVars, navVars, todayVars,
                   silence, intervals, modalVars, caVars, taps>>

\* ------------------------------------------------------------ ChoresModal
\* chores is the number of the getChores call whose answer is shown (0: the
\* initial empty list); lastReq numbers the calls of this mount (history)
cmInit ==
  [chores |-> 0, loading |-> FALSE, error |-> FALSE, newChore |-> FALSE,
   creating |-> FALSE, lastReq |-> 0]

caInit == [isListening |-> FALSE, isProcessing |-> FALSE, recordingRef |-> NoRec]

ModalTask(fn, gen, seq) == [fn |-> fn, gen |-> gen, seq |-> seq]

\* the component instance a task belongs to is still the mounted one
Live(t) == showChores /\ t.gen = cmGen

Modal == [cm |-> cm, tasks |-> cmTasks]

PutModal(st) ==
  /\ cm' = st.cm
  /\ cmTasks' = st.tasks

\* fetchChores up to its await, called by the instance of mount gen; the
\* state of an instance that is no longer mounted is not written
fetchChores(st, gen, live) ==
  IF live
  THEN [cm |-> [st.cm EXCEPT !.loading = TRUE, !.error = FALSE,
                             !.lastReq = st.cm.lastReq + 1],
        tasks |-> Add(st.tasks, ModalTask("getChores", gen, st.cm.lastReq + 1))]
  ELSE [st EXCEPT !.tasks = Add(st.tasks, ModalTask("getChores", gen, 0))]

\* FloatingChoresButton: setShowChores(true) mounts ChoresModal, whose
\* effect calls fetchChores (visible and token)
cmOpen ==
  /\ taps.all < MaxTaps
  /\ Rendered /\ ~showChores /\ ~vc.mounted
  /\ taps' = [taps EXCEPT !.all = @ + 1]
  /\ showChores' = TRUE
  /\ cmGen' = cmGen + 1
  /\ ca' = caInit
  /\ PutModal(fetchChores([cm |-> cmInit, tasks |-> cmTasks], cmGen + 1, TRUE))
  /\ ev' = Ev("chores.open", FALSE, {"getChores"})
  /\ UNCHANGED <<swipeVars, chatVars, vcVars, authVars, voiceVars, platVars, navVars, todayVars, caTasks>>

\* the Close button: setShowChores(false) unmounts ChoresModal
cmClose ==
  /\ taps.all < MaxTaps
  /\ Rendered /\ showChores
  /\ taps' = [taps EXCEPT !.all = @ + 1]
  /\ showChores' = FALSE
  /\ cm' = cmInit
  /\ ca' = caInit
  /\ ev' = Ev("chores.close", FALSE, {})
  /\ UNCHANGED <<swipeVars, chatVars, vcVars, authVars, voiceVars, platVars, navVars, todayVars, cmGen,
                 cmTasks, caTasks>>

\* getChores resolved: setChores, setLoading(false)
cmGetChoresResolve ==
  \E t \in DOMAIN cmTasks :
    /\ t.fn = "getChores"
    /\ cmTasks' = Del(cmTasks, t)
    /\ cm' = IF Live(t) THEN [cm EXCEPT !.chores = t.seq, !.loading = FALSE] ELSE cm
    /\ ev' = Ev("getChores.ok", FALSE, {})
    /\ UNCHANGED <<swipeVars, chatVars, vcVars, authVars, voiceVars, platVars, navVars, todayVars,
                   showChores, cmGen, caVars, taps>>

\* getChores rejected: setError, setLoading(false)
cmGetChoresReject ==
  \E t \in DOMAIN cmTasks :
    /\ t.fn = "getChores"
    /\ cmTasks' = Del(cmTasks, t)
    /\ cm' = IF Live(t) THEN [cm EXCEPT !.error = TRUE, !.loading = FALSE] ELSE cm
    /\ ev' = Ev("getChores.failed", TRUE, {})
    /\ UNCHANGED <<swipeVars, chatVars, vcVars, authVars, voiceVars, platVars, navVars, todayVars,
                   showChores, cmGen, caVars, taps>>

\* the list is on screen (not the spinner, not the error text)
ListShown == Rendered /\ showChores /\ ~cm.loading /\ ~cm.error

\* pull-to-refresh of the list: fetchChores
cmRefresh ==
  /\ taps.all < MaxTaps
  /\ ListShown
  /\ taps' = [taps EXCEPT !.all = @ + 1]
  /\ PutModal(fetchChores(Modal, cmGen, TRUE))
  /\ ev' = Ev("chores.refresh", FALSE, {"getChores"})
  /\ UNCHANGED <<swipeVars, chatVars, vcVars, authVars, voiceVars, platVars, navVars, todayVars,
                 showChores, cmGen, caVars>>

\* a button of a listed chore; which buttons a chore offers depends on the
\* data the backend returned
ChoreListed == ListShown /\ cm.chores # 0

Mutate(fn) ==
  /\ taps.all < MaxTaps
  /\ ChoreListed
  /\ taps' = [taps EXCEPT !.all = @ + 1]
  /\ cmTasks' = Add(cmTasks, ModalTask(fn, cmGen, 0))
  /\ ev' = Ev("chores." \o fn, FALSE, {fn})
  /\ UNCHANGED <<swipeVars, chatVars, vcVars, authVars, voiceVars, platVars, navVars, todayVars,
                 showChores, cmGen, cm, caVars>>

\* handlePickUp: needs token and user
handlePickUp == auth.user # Null /\ Mutate("assignChore")

handleComplete == Mutate("completeChore")

handleDelete == Mutate("deleteChore")

\* typing a description into the input (editable while not creating)
cmChangeText ==
  /\ Rendered /\ showChores
  /\ ~cm.creating /\ ~cm.newChore
  /\ cm' = [cm EXCEPT !.newChore = TRUE]
  /\ ev' = Ev("chores.type", FALSE, {})
  /\ UNCHANGED <<swipeVars, chatVars, vcVars, authVars, voiceVars, platVars, navVars, todayVars,
                 showChores, cmGen, cmTasks, caVars, taps>>

\* handleCreateChore: the Add button is disabled while creating or empty
handleCreateChore ==
  /\ taps.all < MaxTaps
  /\ Rendered /\ showChores
  /\ ~cm.creating /\ cm.newChore
  /\ taps' = [taps EXCEPT !.all = @ + 1]
  /\ cm' = [cm EXCEPT !.creating = TRUE]
  /\ cmTasks' = Add(cmTasks, ModalTask("createChore", cmGen, 0))
  /\ ev' = Ev("chores.createChore", FALSE, {"createChore"})
  /\ UNCHANGED <<swipeVars, chatVars, vcVars, authVars, voiceVars, platVars, navVars, todayVars,
                 showChores, cmGen, caVars>>

\* a chore mutation resolved: fetchChores; after createChore also
\* setNewChore('') before and setCreating(false) after
cmMutationResolve ==
  \E t \in DOMAIN cmTasks :
    /\ t.fn # "getChores"
    /\ LET c1 == IF t.fn = "createChore" /\ Live(t)
                 THEN [cm EXCEPT !.newChore = FALSE, !.creating = FALSE]
                 ELSE cm
       IN  PutModal(fetchChores([cm |-> c1, tasks |-> Del(cmTasks, t)], t.gen, Live(t)))
    /\ ev' = Ev(t.fn \o ".ok", FALSE, {"getChores"})
    /\ UNCHANGED <<swipeVars, chatVars, vcVars, authVars, voiceVars, platVars, navVars, todayVars,
                   showChores, cmGen, caVars, taps>>

\* a chore mutation rejected: the empty catch; setCreating(false)
cmMutationReject ==
  \E t \in DOMAIN cmTasks :
    /\ t.fn # "getChores"
    /\ cmTasks' = Del(cmTasks, t)
    /\ cm' = IF t.fn = "createChore" /\ Live(t) THEN [cm EXCEPT !.creating = FALSE] ELSE cm
    /\ ev' = Ev(t.fn \o ".failed", TRUE, {})
    /\ UNCHANGED <<swipeVars, chatVars, vcVars, authVars, voiceVars, platVars, navVars, todayVars,
                   showChores, cmGen, caVars, taps>>

\* ------------------------------------------------ useChoresVoiceAssistant
CaTask(fn, pc, rec) ==
  [fn |-> fn, pc |-> pc, gen |-> cmGen, rec |-> rec, token |-> auth.token,
   granted |-> FALSE]

\* writes to the state of the hook only reach a mounted instance
CaSet(t, new) == IF Live(t) THEN new ELSE ca

\* startListening up to its first await
caStartListening(c) == [c EXCEPT !.isListening = TRUE, !.isProcessing = FALSE]

\* the microphone button of the modal (disabled while isProcessing):
\* onPress is stopListening while isListening, else startListening
caPress ==
  /\ taps.all < MaxTaps
  /\ Rendered /\ showChores
  /\ ~ca.isProcessing
  /\ taps' = [taps EXCEPT !.all = @ + 1]
  /\ IF ca.isListening
     THEN IF ca.recordingRef = NoRec
          THEN /\ UNCHANGED caVars
               /\ ev' = Ev("chores.mic.ignored", FALSE, {})
          ELSE /\ ca' = [ca EXCEPT !.isListening = FALSE, !.isProcessing = TRUE]
               /\ caTasks' = Add(caTasks, CaTask("stop", "stopAndUnload", ca.recordingRef))
               /\ ev' = Ev("chores.mic.stop", FALSE, {})
     ELSE /\ ca' = caStartListening(ca)
          /\ caTasks' = Add(caTasks, CaTask("start", "requestPermissions", NoRec))
          /\ ev' = Ev("chores.mic.start", FALSE, {})
  /\ UNCHANGED <<swipeVars, chatVars, vcVars, authVars, voiceVars, platVars, navVars, todayVars, modalVars>>

\* requestPermissionsAsync (granted or not: the result is not looked at),
\* then setAudioModeAsync resolved
caPrepareResolve ==
  \E t \in DOMAIN caTasks, granted \in BOOLEAN :
    /\ t.fn = "start" /\ t.pc \in {"requestPermissions", "setAudioMode"}
    /\ t.pc = "setAudioMode" => granted = t.granted
    /\ caTasks' = Add(Del(caTasks, t),
                      [t EXCEPT !.pc = IF t.pc = "requestPermissions"
                                       THEN "setAudioMode" ELSE "createRecording",
                                !.granted = granted])
    /\ ev' = Ev("chores." \o t.pc \o ".ok", FALSE, {})
    /\ UNCHANGED <<swipeVars, chatVars, vcVars, authVars, voiceVars, platVars, navVars, todayVars,
                   modalVars, ca, taps>>

\* Audio.Recording.createAsync resolved: recordingRef.current = recording
caCreateRecordingResolve ==
  \E t \in DOMAIN caTasks :
    /\ t.fn = "start" /\ t.pc = "createRecording"
    /\ nextRec < MaxRecordings
    /\ nextRec' = nextRec + 1
    /\ recorders' = recorders \cup {nextRec + 1}
    /\ ca' = CaSet(t, [ca EXCEPT !.recordingRef = nextRec + 1])
    /\ caTasks' = Del(caTasks, t)
    /\ ev' = [Ev("chores.createRecording.ok", FALSE, {}) EXCEPT !.hist = <<t.granted>>]
    /\ UNCHANGED <<swipeVars, chatVars, vcVars, authVars, voiceVars, navVars, todayVars, modalVars, taps>>

\* an await of startListening rejected: the catch block, then rethrow
caStartThrows ==
  \E t \in DOMAIN caTasks :
    /\ t.fn = "start"
    /\ ca' = CaSet(t, [ca EXCEPT !.isListening = FALSE, !.isProcessing = FALSE])
    /\ caTasks' = Del(caTasks, t)
    /\ ev' = Ev("chores.startListening.threw", TRUE, {})
    /\ UNCHANGED <<swipeVars, chatVars, vcVars, authVars, voiceVars, platVars, navVars, todayVars,
                   modalVars, taps>>

\* stopAndUnloadAsync resolved: getURI, the ref is nulled and, with a uri
\* and a token, processVoiceCommand starts by fetching the file
caStopAndUnloadResolve ==
  \E t \in DOMAIN caTasks, hasUri \in BOOLEAN :
    /\ t.fn = "stop" /\ t.pc = "stopAndUnload"
    /\ recorders' = recorders \ {t.rec}
    /\ ca' = CaSet(t, [ca EXCEPT !.recordingRef = NoRec])
    /\ IF hasUri /\ t.token # Null
       THEN /\ caTasks' = Add(Del(caTasks, t), [t EXCEPT !.pc = "fetchAudio"])
            /\ ev' = Ev("chores.stopAndUnload.ok", FALSE, {})
       ELSE /\ caTasks' = Del(caTasks, t)
            /\ ev' = Ev("chores.stopListening.returned", FALSE, {})
    /\ UNCHANGED <<swipeVars, chatVars, vcVars, authVars, voiceVars, nextRec, navVars, todayVars, modalVars, taps>>

\* stopAndUnloadAsync rejected: the catch block; the platform may or may
\* not have released the recorder
caStopAndUnloadReject ==
  \E t \in DOMAIN caTasks, released \in BOOLEAN :
    /\ t.fn = "stop" /\ t.pc = "stopAndUnload"
    /\ recorders' = IF released THEN recorders \ {t.rec} ELSE recorders
    /\ ca' = CaSet(t, [ca EXCEPT !.isProcessing = FALSE])
    /\ caTasks' = Del(caTasks, t)
    /\ ev' = Ev("chores.stopListening.threw", TRUE, {})
    /\ UNCHANGED <<swipeVars, chatVars, vcVars, authVars, voiceVars, nextRec, navVars, todayVars, modalVars, taps>>

\* fetch(audioUri) resolved with ok, then response.blob() resolved:
\* choresVoiceCommand is called
caFetchAudioResolve ==
  \E t \in DOMAIN caTasks :
    /\ t.fn = "stop" /\ t.pc \in {"fetchAudio", "blob"}
    /\ caTasks' = Add(Del(caTasks, t),
                      [t EXCEPT !.pc = IF t.pc = "fetchAudio" THEN "blob"
                                       ELSE "choresVoiceCommand"])
    /\ ev' = Ev("chores." \o t.pc \o ".ok", FALSE,
                IF t.pc = "blob" THEN {"choresVoiceCommand"} ELSE {})
    /\ UNCHANGED <<swipeVars, chatVars, vcVars, authVars, voiceVars, platVars, navVars, todayVars,
                   modalVars, ca, taps>>

\* an await of processVoiceCommand rejected, or the file response was not
\* ok: finally, then the catch of stopListening, then rethrow
caProcessThrows ==
  \E t \in DOMAIN caTasks :
    /\ t.fn = "stop" /\ t.pc \in {"fetchAudio", "blob", "choresVoiceCommand"}
    /\ ca' = CaSet(t, [ca EXCEPT !.isProcessing = FALSE])
    /\ caTasks' = Del(caTasks, t)
    /\ ev' = Ev("chores.stopListening.threw", TRUE, {})
    /\ UNCHANGED <<swipeVars, chatVars, vcVars, authVars, voiceVars, platVars, navVars, todayVars,
                   modalVars, taps>>

\* choresVoiceCommand resolved: setLastResult and onResult, which calls
\* fetchChores when result.success; finally setIsProcessing(false)
caVoiceCommandResolve ==
  \E t \in DOMAIN caTasks, success \in BOOLEAN :
    /\ t.fn = "stop" /\ t.pc = "choresVoiceCommand"
    /\ ca' = CaSet(t, [ca EXCEPT !.isProcessing = FALSE])
    /\ caTasks' = Del(caTasks, t)
    /\ PutModal(IF success THEN fetchChores(Modal, t.gen, Live(t)) ELSE Modal)
    /\ ev' = Ev("chores.stopListening.done", FALSE,
                IF success THEN {"getChores"} ELSE {})
    /\ UNCHANGED <<swipeVars, chatVars, vcVars, authVars, voiceVars, platVars, navVars, todayVars,
                   showChores, cmGen, taps>>

\* ------------------------------------------------------- VoiceCommandView
vcInit ==
  [mounted |-> FALSE, isListening |-> FALSE, isProcessing |-> FALSE,
   recording |-> NoRec, hasPermission |-> FALSE, lastResponse |-> ""]

\* AgentResponse: success, and whether message is non-empty
AgentResponses == [success : BOOLEAN, message : BOOLEAN]

VcTask(fn, pc, rec) ==
  [fn |-> fn, pc |-> pc, rec |-> rec,
   res |-> [success |-> FALSE, message |-> FALSE]]

\* An Error is modelled by the set of the search strings of the catch block
\* that its message contains.
\* `Failed to fetch audio file: <status>`, thrown when the file response is not ok
FileNotOk == {"fetch", "Failed to fetch audio file"}
\* `HTTP error! status: <status>, message: <body>`, thrown by ApiService
HttpError(status) == {"HTTP error! status: " \o status}
\* the rejections of fetch, blob() and JSON.parse carry a message of the
\* platform: with or without the word fetch
PlatformErrors == {{}, {"fetch"}}
\* statuses a backend may answer with
Statuses == {"404", "500", "413", "400"}

\* the message chosen by the catch block of processVoiceCommand
ErrorMessage(err) ==
  IF "fetch" \in err
  THEN "Network error: Please check your internet connection and try again."
  ELSE IF "HTTP error! status: 404" \in err
  THEN "API endpoint not found. Please check the server configuration."
  ELSE IF "HTTP error! status: 500" \in err
  THEN "Server error: The voice processing service is temporarily unavailable."
  ELSE IF "HTTP error! status: 413" \in err
  THEN "Audio file too large. Please try a shorter recording."
  ELSE IF "Failed to fetch audio file" \in err
  THEN "Error reading audio file. Please try recording again."
  ELSE "Sorry, I couldn't process your voice command. Please try again."

\* the view is mounted, as the Voice page of the App that has that page and
\* no floating buttons: its effect calls requestPermissions
vcMount ==
  /\ Rendered
  /\ ~vc.mounted /\ taps.mic = 0 /\ cmGen = 0
  /\ vc' = [vc EXCEPT !.mounted = TRUE]
  /\ vcTasks' = Add(vcTasks, VcTask("requestPermissions", "requestPermissions", NoRec))
  /\ ev' = Ev("voice.mount", FALSE, {})
  /\ UNCHANGED <<swipeVars, chatVars, alert, authVars, voiceVars, platVars, navVars, todayVars,
                 modalVars, caVars, taps>>

\* Audio.requestPermissionsAsync resolved: setHasPermission; startRecording,
\* when it was the caller, returns
vcPermissionsResolve ==
  \E t \in DOMAIN vcTasks, granted \in BOOLEAN :
    /\ t.pc = "requestPermissions"
    /\ vc' = [vc EXCEPT !.hasPermission = granted]
    /\ vcTasks' = Del(vcTasks, t)
    /\ ev' = Ev("voice.requestPermissions.ok", FALSE, {})
    /\ UNCHANGED <<swipeVars, chatVars, alert, authVars, voiceVars, platVars, navVars, todayVars,
                   modalVars, caVars, taps>>

\* Audio.requestPermissionsAsync rejected: the catch of requestPermissions
vcPermissionsReject ==
  \E t \in DOMAIN vcTasks :
    /\ t.pc = "requestPermissions"
    /\ alert' = "Permission Error"
    /\ vcTasks' = Del(vcTasks, t)
    /\ ev' = Ev("voice.requestPermissions.failed", TRUE, {})
    /\ UNCHANGED <<swipeVars, chatVars, vc, authVars, voiceVars, platVars, navVars, todayVars,
                   modalVars, caVars, taps>>

\* handleVoiceCommand (the button is disabled while isProcessing):
\* stopRecording while isListening, else startRecording
handleVoiceCommand ==
  /\ taps.all < MaxTaps
  /\ vc.mounted /\ ~vc.isProcessing
  /\ taps' = [taps EXCEPT !.all = @ + 1]
  /\ IF vc.isListening
     THEN IF vc.recording = NoRec
          THEN /\ UNCHANGED <<swipeVars, vc, vcTasks>>
               /\ ev' = Ev("voice.press.ignored", FALSE, {})
          ELSE /\ vc' = [vc EXCEPT !.isListening = FALSE, !.isProcessing = TRUE]
               /\ vcTasks' = Add(vcTasks, VcTask("stopRecording", "stopAndUnload", vc.recording))
               /\ ev' = Ev("voice.press.stop", FALSE, {})
     ELSE /\ vc' = vc
          /\ vcTasks' = Add(vcTasks,
                 IF vc.hasPermission
                 THEN VcTask("startRecording", "setAudioMode", NoRec)
                 ELSE VcTask("startRecording", "requestPermissions", NoRec))
          /\ ev' = Ev("voice.press.start", FALSE, {})
  /\ UNCHANGED <<swipeVars, chatVars, alert, authVars, voiceVars, platVars, navVars, todayVars,
                 modalVars, caVars>>

\* Audio.setAudioModeAsync resolved: Recording.createAsync is called
vcSetAudioModeResolve ==
  \E t \in DOMAIN vcTasks :
    /\ t.fn = "startRecording" /\ t.pc = "setAudioMode"
    /\ vcTasks' = Add(Del(vcTasks, t), [t EXCEPT !.pc = "createRecording"])
    /\ ev' = Ev("voice.setAudioMode.ok", FALSE, {})
    /\ UNCHANGED <<swipeVars, chatVars, vc, alert, authVars, voiceVars, platVars, navVars,
                   todayVars, modalVars, caVars, taps>>

\* Recording.createAsync resolved: setRecording, setIsListening(true)
vcCreateRecordingResolve ==
  \E t \in DOMAIN vcTasks :
    /\ t.fn = "startRecording" /\ t.pc = "createRecording"
    /\ nextRec < MaxRecordings
    /\ nextRec' = nextRec + 1
    /\ recorders' = recorders \cup {nextRec + 1}
    /\ vc' = [vc EXCEPT !.recording = nextRec + 1, !.isListening = TRUE]
    /\ vcTasks' = Del(vcTasks, t)
    /\ ev' = [Ev("voice.createRecording.ok", FALSE, {}) EXCEPT !.hist = <<vc.hasPermission>>]
    /\ UNCHANGED <<swipeVars, chatVars, alert, authVars, voiceVars, navVars, todayVars, modalVars,
                   caVars, taps>>

\* setAudioModeAsync or createAsync rejected: the catch of startRecording
vcStartThrows ==
  \E t \in DOMAIN vcTasks :
    /\ t.fn = "startRecording" /\ t.pc \in {"setAudioMode", "createRecording"}
    /\ alert' = "Recording Error"
    /\ vcTasks' = Del(vcTasks, t)
    /\ ev' = Ev("voice.startRecording.failed", TRUE, {})
    /\ UNCHANGED <<swipeVars, chatVars, vc, authVars, voiceVars, platVars, navVars, todayVars,
                   modalVars, caVars, taps>>

\* stopAndUnloadAsync resolved: getURI, setRecording(null) and, with a uri,
\* processVoiceCommand starts by fetching the file
vcStopAndUnloadResolve ==
  \E t \in DOMAIN vcTasks, hasUri \in BOOLEAN :
    /\ t.fn = "stopRecording" /\ t.pc = "stopAndUnload"
    /\ recorders' = recorders \ {t.rec}
    /\ vc' = [vc EXCEPT !.recording = NoRec]
    /\ IF hasUri
       THEN /\ vcTasks' = Add(Del(vcTasks, t), [t EXCEPT !.pc = "fetchAudio"])
            /\ ev' = Ev("voice.stopAndUnload.ok", FALSE, {})
       ELSE /\ vcTasks' = Del(vcTasks, t)
            /\ ev' = Ev("voice.stopRecording.returned", FALSE, {})
    /\ UNCHANGED <<swipeVars, chatVars, alert, authVars, voiceVars, nextRec, navVars, todayVars,
                   modalVars, caVars, taps>>

\* stopAndUnloadAsync rejected: the catch of stopRecording
vcStopAndUnloadReject ==
  \E t \in DOMAIN vcTasks, released \in BOOLEAN :
    /\ t.fn = "stopRecording" /\ t.pc = "stopAndUnload"
    /\ recorders' = IF released THEN recorders \ {t.rec} ELSE recorders
    /\ vc' = [vc EXCEPT !.isProcessing = FALSE]
    /\ alert' = "Recording Error"
    /\ vcTasks' = Del(vcTasks, t)
    /\ ev' = Ev("voice.stopRecording.failed", TRUE, {})
    /\ UNCHANGED <<swipeVars, chatVars, authVars, voiceVars, nextRec, navVars, todayVars,
                   modalVars, caVars, taps>>

\* fetch(audioUri) resolved with ok, then response.blob() resolved:
\* apiService.processVoiceCommand is called
vcFetchAudioResolve ==
  \E t \in DOMAIN vcTasks :
    /\ t.fn = "stopRecording" /\ t.pc \in {"fetchAudio", "blob"}
    /\ vcTasks' = Add(Del(vcTasks, t),
                      [t EXCEPT !.pc = IF t.pc = "fetchAudio" THEN "blob"
                                       ELSE "processVoiceCommand"])
    /\ ev' = Ev("voice." \o t.pc \o ".ok", FALSE,
                IF t.pc = "blob" THEN {"processVoiceCommand"} ELSE {})
    /\ UNCHANGED <<swipeVars, chatVars, vc, alert, authVars, voiceVars, platVars, navVars,
                   todayVars, modalVars, caVars, taps>>

\* the errors an await of processVoiceCommand can end with
Thrown(pc) ==
  IF pc = "fetchAudio" THEN PlatformErrors \cup {FileNotOk}
  ELSE IF pc = "blob" THEN PlatformErrors
  ELSE PlatformErrors \cup {HttpError(st) : st \in Statuses}

\* an await of processVoiceCommand threw: the catch block sets the error
\* text, finally setIsProcessing(false)
vcProcessThrows ==
  \E t \in DOMAIN vcTasks :
    /\ t.fn = "stopRecording" /\ t.pc \in {"fetchAudio", "blob", "processVoiceCommand"}
    /\ \E err \in Thrown(t.pc) :
         /\ vc' = [vc EXCEPT !.lastResponse = "Error: " \o ErrorMessage(err),
                             !.isProcessing = FALSE]
         /\ ev' = [Ev("voice.processVoiceCommand.failed", TRUE, {}) EXCEPT !.hist = <<err>>]
    /\ vcTasks' = Del(vcTasks, t)
    /\ UNCHANGED <<swipeVars, chatVars, alert, authVars, voiceVars, platVars, navVars, todayVars,
                   modalVars, caVars, taps>>

\* apiService.processVoiceCommand resolved: setLastResponse; the message is
\* spoken when success and a message; else finally setIsProcessing(false)
vcProcessResolve ==
  \E t \in DOMAIN vcTasks, res \in AgentResponses :
    /\ t.fn = "stopRecording" /\ t.pc = "processVoiceCommand"
    /\ IF res.success /\ res.message
       THEN /\ vc' = [vc EXCEPT !.lastResponse = "message"]
            /\ vcTasks' = Add(Del(vcTasks, t), [t EXCEPT !.pc = "speak", !.res = res])
            /\ ev' = [Ev("voice.speak", FALSE, {}) EXCEPT !.hist = <<res>>]
       ELSE /\ vc' = [vc EXCEPT !.lastResponse = IF res.message THEN "message" ELSE "",
                                !.isProcessing = FALSE]
            /\ vcTasks' = Del(vcTasks, t)
            /\ ev' = [Ev("voice.processVoiceCommand.done", FALSE, {}) EXCEPT !.hist = <<res>>]
    /\ UNCHANGED <<swipeVars, chatVars, alert, authVars, voiceVars, platVars, navVars, todayVars,
                   modalVars, caVars, taps>>

\* the await of Speech.speak continues: finally setIsProcessing(false)
vcSpeakDone ==
  \E t \in DOMAIN vcTasks :
    /\ t.fn = "stopRecording" /\ t.pc = "speak"
    /\ vc' = [vc EXCEPT !.isProcessing = FALSE]
    /\ vcTasks' = Del(vcTasks, t)
    /\ ev' = Ev("voice.processVoiceCommand.spoken", FALSE, {})
    /\ UNCHANGED <<swipeVars, chatVars, alert, authVars, voiceVars, platVars, navVars, todayVars,
                   modalVars, caVars, taps>>

\* ---------------------------------------------------- extractDateFromText
\* getDay(): 0 is Sunday; the index of a name in the weekdays array
Weekdays == 0..6

\* A text is modelled by what the tests of the function find in it: which of
\* 'today', 'tomorrow', 'yesterday' it contains (rel), for which weekdays it
\* contains 'next <weekday>' (next), which weekday names it contains between
\* two backspace characters, the only thing `\b${wd}\b` in a template string
\* matches (bare), and whether dateRegex matches and the match can be parsed
Texts ==
  {t \in [rel : SUBSET {"today", "tomorrow", "yesterday"}, next : SUBSET Weekdays,
          bare : SUBSET Weekdays, dated : {"none", "parsed", "unparsable"}] :
     Cardinality(t.next) + Cardinality(t.bare) <= MaxNamed}

\* a 'next <weekday>' that forgets the week it has to skip
NextOffsetSameWeek(day, i) == (7 - day + i) % 7

\* daysToAdd of the 'next <weekday>' branch
NextOffset(day, i) == ((7 - day + i) % 7) + 7

\* the loop over the weekdays array from index i on, then the dateRegex
\* part; the result is the number of days added to today, "parsed" for a
\* date read from the text, or "null"
RECURSIVE WeekdayLoop(_, _, _)
WeekdayLoop(text, day, i) ==
  IF i \notin Weekdays
  THEN IF text.dated = "parsed" THEN "parsed" ELSE "null"
  ELSE IF i \in text.next
  THEN NextOffset(day, i)
  ELSE IF i \in text.bare
  THEN LET daysToAdd == (i - day + 7) % 7 IN IF daysToAdd = 0 THEN 7 ELSE daysToAdd
  ELSE WeekdayLoop(text, day, i + 1)

\* extractDateFromText, called on a day whose getDay() is day
extractDateFromText(text, day) ==
  IF "today" \in text.rel THEN 0
  ELSE IF "tomorrow" \in text.rel THEN 1
  ELSE IF "yesterday" \in text.rel THEN -1
  ELSE WeekdayLoop(text, day, 0)

\* a call of extractDateFromText (the function is pure: one call from the
\* launched app shows all it does)
cvExtractDate ==
  /\ ev.op = "launch"
  /\ \E text \in Texts, day \in Weekdays :
       ev' = [Ev("extractDateFromText", FALSE, {})
                EXCEPT !.hist = <<day, text, extractDateFromText(text, day)>>]
  /\ UNCHANGED <<swipeVars, chatVars, vcVars, authVars, voiceVars, platVars, navVars,
                 todayVars, modalVars, caVars, taps>>

\* ------------------------------------------------ ConversationalVoiceView
\* conversation is the list of the types of the messages kept
chatInit ==
  [mounted |-> FALSE, isListening |-> FALSE, isProcessing |-> FALSE,
   recording |-> NoRec, hasPermission |-> FALSE, conversationId |-> NoConv,
   conversation |-> <<>>]

\* an invocation suspended at an await, with the conversationId and the
\* recording of the render whose closure runs
ChatTask(fn, pc) ==
  [fn |-> fn, pc |-> pc, cid |-> chat.conversationId, rec |-> chat.recording]

\* startNewConversation up to its await
startNewConversation(c) == [c EXCEPT !.isProcessing = TRUE]

\* the view is mounted, as the Chat page of the App that has that page: its
\* effect calls requestPermissions and startNewConversation
chatMount ==
  /\ ~chat.mounted
  /\ chat' = startNewConversation([chat EXCEPT !.mounted = TRUE])
  /\ chatTasks' = Add(Add(chatTasks, ChatTask("requestPermissions", "requestPermissions")),
                      ChatTask("startNewConversation", "startConversation"))
  /\ ev' = Ev("chat.mount", FALSE, {"startConversation"})
  /\ UNCHANGED <<swipeVars, vcVars, authVars, voiceVars, platVars, navVars, todayVars,
                 modalVars, caVars, taps>>

\* Audio.requestPermissionsAsync settled: setHasPermission, or the alert of
\* the catch; startRecording, when it was the caller, returns
chatPermissionsSettle ==
  \E t \in DOMAIN chatTasks, outcome \in {"granted", "denied", "rejected"} :
    /\ t.pc = "requestPermissions"
    /\ chat' = IF outcome = "rejected" THEN chat
               ELSE [chat EXCEPT !.hasPermission = (outcome = "granted")]
    /\ alert' = IF outcome = "rejected" THEN "Permission Error" ELSE alert
    /\ chatTasks' = Del(chatTasks, t)
    /\ ev' = Ev("chat.requestPermissions", outcome = "rejected", {})
    /\ UNCHANGED <<swipeVars, vc, vcTasks, authVars, voiceVars, platVars, navVars,
                   todayVars, modalVars, caVars, taps>>

\* apiService.startConversation resolved: with success the conversationId
\* is set and the list becomes the greeting of the assistant; finally
\* setIsProcessing(false)
chatStartConversationResolve ==
  \E t \in DOMAIN chatTasks, success \in BOOLEAN, id \in 1..MaxConvIds :
    /\ t.pc = "startConversation"
    /\ chat' = IF success
               THEN [chat EXCEPT !.conversationId = id, !.conversation = <<"assistant">>,
                                 !.isProcessing = FALSE]
               ELSE [chat EXCEPT !.isProcessing = FALSE]
    /\ chatTasks' = Del(chatTasks, t)
    /\ ev' = Ev("chat.startConversation.ok", FALSE, {})
    /\ UNCHANGED <<swipeVars, vcVars, authVars, voiceVars, platVars, navVars, todayVars,
                   modalVars, caVars, taps>>

\* apiService.startConversation rejected: the alert of the catch; finally
\* setIsProcessing(false)
chatStartConversationReject ==
  \E t \in DOMAIN chatTasks :
    /\ t.pc = "startConversation"
    /\ chat' = [chat EXCEPT !.isProcessing = FALSE]
    /\ alert' = "Error"
    /\ chatTasks' = Del(chatTasks, t)
    /\ ev' = Ev("chat.startConversation.failed", TRUE, {})
    /\ UNCHANGED <<swipeVars, vc, vcTasks, authVars, voiceVars, platVars, navVars,
                   todayVars, modalVars, caVars, taps>>

\* the microphone button (disabled while isProcessing): handleVoiceCommand
\* calls stopRecording while isListening, else startRecording
chatHandleVoiceCommand ==
  /\ taps.all < MaxTaps
  /\ chat.mounted /\ ~chat.isProcessing
  /\ taps' = [taps EXCEPT !.all = @ + 1]
  /\ IF chat.isListening
     THEN IF chat.recording = NoRec \/ chat.conversationId = NoConv
          THEN /\ UNCHANGED chatVars
               /\ ev' = Ev("chat.press.ignored", FALSE, {})
          ELSE /\ chat' = [chat EXCEPT !.isListening = FALSE, !.isProcessing = TRUE]
               /\ chatTasks' = Add(chatTasks, ChatTask("stopRecording", "stopAndUnload"))
               /\ ev' = Ev("chat.press.stop", FALSE, {})
     ELSE IF ~chat.hasPermission
          THEN /\ chat' = chat
               /\ chatTasks' = Add(chatTasks, ChatTask("startRecording", "requestPermissions"))
               /\ ev' = Ev("chat.press.start", FALSE, {})
          ELSE IF chat.conversationId = NoConv
          THEN /\ chat' = startNewConversation(chat)
               /\ chatTasks' = Add(chatTasks, ChatTask("startRecording", "startConversation"))
               /\ ev' = Ev("chat.press.start", FALSE, {"startConversation"})
          ELSE /\ chat' = chat
               /\ chatTasks' = Add(chatTasks, ChatTask("startRecording", "setAudioMode"))
               /\ ev' = Ev("chat.press.start", FALSE, {})
  /\ UNCHANGED <<swipeVars, vcVars, authVars, voiceVars, platVars, navVars, todayVars,
                 modalVars, caVars>>

\* Audio.setAudioModeAsync resolved: Recording.createAsync is called
chatSetAudioModeResolve ==
  \E t \in DOMAIN chatTasks :
    /\ t.fn = "startRecording" /\ t.pc = "setAudioMode"
    /\ chatTasks' = Add(Del(chatTasks, t), [t EXCEPT !.pc = "createRecording"])
    /\ ev' = Ev("chat.setAudioMode.ok", FALSE, {})
    /\ UNCHANGED <<swipeVars, chat, vcVars, authVars, voiceVars, platVars, navVars,
                   todayVars, modalVars, caVars, taps>>

\* Recording.createAsync resolved: setRecording, setIsListening(true)
chatCreateRecordingResolve ==
  \E t \in DOMAIN chatTasks :
    /\ t.fn = "startRecording" /\ t.pc = "createRecording"
    /\ nextRec < MaxRecordings
    /\ nextRec' = nextRec + 1
    /\ recorders' = recorders \cup {nextRec + 1}
    /\ chat' = [chat EXCEPT !.recording = nextRec + 1, !.isListening = TRUE]
    /\ chatTasks' = Del(chatTasks, t)
    /\ ev' = Ev("chat.createRecording.ok", FALSE, {})
    /\ UNCHANGED <<swipeVars, vcVars, authVars, voiceVars, navVars, todayVars, modalVars,
                   caVars, taps>>

\* setAudioModeAsync or createAsync rejected: the catch of startRecording
chatStartThrows ==
  \E t \in DOMAIN chatTasks :
    /\ t.fn = "startRecording" /\ t.pc \in {"setAudioMode", "createRecording"}
    /\ alert' = "Recording Error"
    /\ chatTasks' = Del(chatTasks, t)
    /\ ev' = Ev("chat.startRecording.failed", TRUE, {})
    /\ UNCHANGED <<swipeVars, chat, vc, vcTasks, authVars, voiceVars, platVars, navVars,
                   todayVars, modalVars, caVars, taps>>

\* stopAndUnloadAsync resolved: getURI, setRecording(null) and, with a uri,
\* processVoiceMessage starts by fetching the file; rejected: the catch of
\* stopRecording (the platform may or may not have released the recorder)
chatStopAndUnloadSettle ==
  \E t \in DOMAIN chatTasks, outcome \in {"uri", "noUri", "rejected", "rejectedHeld"} :
    /\ t.fn = "stopRecording" /\ t.pc = "stopAndUnload"
    /\ recorders' = IF outcome = "rejectedHeld" THEN recorders ELSE recorders \ {t.rec}
    /\ chat' = IF outcome \in {"uri", "noUri"}
               THEN [chat EXCEPT !.recording = NoRec]
               ELSE [chat EXCEPT !.isProcessing = FALSE]
    /\ alert' = IF outcome \in {"uri", "noUri"} THEN alert ELSE "Recording Error"
    /\ chatTasks' = IF outcome = "uri"
                    THEN Add(Del(chatTasks, t), [t EXCEPT !.pc = "fetchAudio"])
                    ELSE Del(chatTasks, t)
    /\ ev' = Ev("chat.stopAndUnload." \o outcome, outcome \in {"rejected", "rejectedHeld"}, {})
    /\ UNCHANGED <<swipeVars, vc, vcTasks, authVars, voiceVars, nextRec, navVars,
                   todayVars, modalVars, caVars, taps>>

\* fetch(audioUri) resolved with ok, then response.blob() resolved:
\* apiService.sendVoiceMessage is called with the conversationId of the closure
chatFetchAudioResolve ==
  \E t \in DOMAIN chatTasks :
    /\ t.fn = "stopRecording" /\ t.pc \in {"fetchAudio", "blob"}
    /\ chatTasks' = Add(Del(chatTasks, t),
                        [t EXCEPT !.pc = IF t.pc = "fetchAudio" THEN "blob"
                                         ELSE "sendVoiceMessage"])
    /\ ev' = Ev("chat." \o t.pc \o ".ok", FALSE,
                IF t.pc = "blob" THEN {"sendVoiceMessage"} ELSE {})
    /\ UNCHANGED <<swipeVars, chat, vcVars, authVars, voiceVars, platVars, navVars,
                   todayVars, modalVars, caVars, taps>>

\* an await of processVoiceMessage threw (or the file response was not ok):
\* the alert of the catch, finally setIsProcessing(false)
chatProcessThrows ==
  \E t \in DOMAIN chatTasks :
    /\ t.fn = "stopRecording" /\ t.pc \in {"fetchAudio", "blob", "sendVoiceMessage"}
    /\ chat' = [chat EXCEPT !.isProcessing = FALSE]
    /\ alert' = "Error"
    /\ chatTasks' = Del(chatTasks, t)
    /\ ev' = Ev("chat.processVoiceMessage.failed", TRUE, {})
    /\ UNCHANGED <<swipeVars, vc, vcTasks, authVars, voiceVars, platVars, navVars,
                   todayVars, modalVars, caVars, taps>>

\* a variant that keeps only the answer of the assistant
AssistantOnly(conversation) == Append(conversation, "assistant")

\* setConversation(prev => [...prev, userMessage, assistantMessage])
Exchange(conversation) == conversation \o <<"user", "assistant">>

\* apiService.sendVoiceMessage resolved: with success the two messages are
\* appended and the answer is played or spoken (awaited); without, finally
\* setIsProcessing(false)
chatSendVoiceMessageResolve ==
  \E t \in DOMAIN chatTasks, success \in BOOLEAN :
    /\ t.fn = "stopRecording" /\ t.pc = "sendVoiceMessage"
    /\ IF success
       THEN /\ chat' = [chat EXCEPT !.conversation = Exchange(chat.conversation)]
            /\ chatTasks' = Add(Del(chatTasks, t), [t EXCEPT !.pc = "feedback"])
       ELSE /\ chat' = [chat EXCEPT !.isProcessing = FALSE]
            /\ chatTasks' = Del(chatTasks, t)
    /\ ev' = Ev("chat.sendVoiceMessage.ok", FALSE, {})
    /\ UNCHANGED <<swipeVars, vcVars, authVars, voiceVars, platVars, navVars, todayVars,
                   modalVars, caVars, taps>>

\* playAudioResponse or Speech.speak, awaited, has ended (playAudioResponse
\* catches its errors): finally setIsProcessing(false)
chatFeedbackDone ==
  \E t \in DOMAIN chatTasks :
    /\ t.fn = "stopRecording" /\ t.pc = "feedback"
    /\ chat' = [chat EXCEPT !.isProcessing = FALSE]
    /\ chatTasks' = Del(chatTasks, t)
    /\ ev' = Ev("chat.processVoiceMessage.done", FALSE, {})
    /\ UNCHANGED <<swipeVars, vcVars, authVars, voiceVars, platVars, navVars, todayVars,
                   modalVars, caVars, taps>>

\* the 'New Conversation' button (never disabled): setConversation([]) and
\* startNewConversation
clearConversation ==
  /\ taps.all < MaxTaps
  /\ chat.mounted
  /\ taps' = [taps EXCEPT !.all = @ + 1]
  /\ chat' = startNewConversation([chat EXCEPT !.conversation = <<>>])
  /\ chatTasks' = Add(chatTasks, ChatTask("startNewConversation", "startConversation"))
  /\ ev' = Ev("chat.clearConversation", FALSE, {"startConversation"})
  /\ UNCHANGED <<swipeVars, vcVars, authVars, voiceVars, platVars, navVars, todayVars,
                 modalVars, caVars>>

\* ------------------------------------------------- swipe navigation
\* translationX of a gesture event: below -100, above 100, or in between
Translations == {"left", "right", "small"}

panInit == [active |-> FALSE, started |-> 0, done |-> 0]

\* a handler that tests the translation only
SwipeTargetsUnchecked(translationX, page) ==
  IF translationX = "left" THEN {page + 1}
  ELSE IF translationX = "right" THEN {page - 1} ELSE {}

\* the page a gesture event asks for: the next page for a translation
\* below -100 unless on the last page, the previous page for one above 100
\* unless on the first page; no page otherwise
SwipeTargets(translationX, page) ==
  IF translationX = "left" /\ page < NumPages - 1 THEN {page + 1}
  ELSE IF translationX = "right" /\ page > 0 THEN {page - 1} ELSE {}

\* the finger goes down on the page: a pan gesture begins.  A transition
\* still running belongs to an earlier gesture
panBegin ==
  /\ Rendered /\ ~pan.active
  /\ taps.all < MaxTaps
  /\ taps' = [taps EXCEPT !.all = @ + 1]
  /\ pan' = [active |-> TRUE, started |-> 0, done |-> 0]
  /\ anims' = LET S == {[a EXCEPT !.own = FALSE] : a \in DOMAIN anims}
              IN  [u \in S |-> Count(anims, u) + Count(anims, [u EXCEPT !.own = TRUE])]
  /\ ev' = Ev("pan.begin", FALSE, {})
  /\ UNCHANGED <<isSwiping, chatVars, vcVars, authVars, voiceVars, platVars, navVars,
                 todayVars, modalVars, caVars>>

\* onGestureEvent: ignored while isSwiping; else a translation past the
\* threshold towards an existing page sets isSwiping and starts the 300 ms
\* animation, whose callback holds safeCurrentPage of this render
onGestureEvent ==
  \E translationX \in Translations :
    /\ Rendered /\ pan.active
    /\ IF isSwiping
       THEN /\ ev' = [Ev("pan.ignored", FALSE, {}) EXCEPT !.hist = <<translationX>>]
            /\ UNCHANGED swipeVars
       ELSE IF SwipeTargets(translationX, safeCurrentPage) = {}
       THEN /\ ev' = [Ev("pan.none", FALSE, {}) EXCEPT !.hist = <<translationX>>]
            /\ UNCHANGED swipeVars
       ELSE /\ pan.started < MaxTransitions
            /\ isSwiping' = TRUE
            /\ anims' = Add(anims, [target |-> CHOOSE p \in SwipeTargets(translationX,
                                                                        safeCurrentPage) : TRUE,
                                    own |-> TRUE])
            /\ pan' = [pan EXCEPT !.started = @ + 1]
            /\ ev' = [Ev("pan.swipe", FALSE, {}) EXCEPT !.hist = <<translationX>>]
    /\ UNCHANGED <<chatVars, vcVars, authVars, voiceVars, platVars, navVars,
                   todayVars, modalVars, caVars, taps>>

\* the finger is lifted: the gesture ends
panEnd ==
  /\ pan.active
  /\ pan' = [pan EXCEPT !.active = FALSE]
  /\ ev' = Ev("pan.end", FALSE, {})
  /\ UNCHANGED <<isSwiping, anims, chatVars, vcVars, authVars, voiceVars, platVars,
                 navVars, todayVars, modalVars, caVars, taps>>

\* the animation has completed: its callback sets the page it holds (with
\* the TodayView effect that triggers) and isSwiping back to false
swipeAnimationDone ==
  \E a \in DOMAIN anims :
    /\ anims' = Del(anims, a)
    /\ isSwiping' = FALSE
    /\ pan' = IF a.own THEN [pan EXCEPT !.done = @ + 1] ELSE pan
    /\ currentPage' = a.target
    /\ PutToday(TodayEffect(Today, currentPage,
                            [page |-> a.target, date |-> selectedDate, range |-> monthRange],
                            FALSE))
    /\ ev' = [Ev("swipe.done", FALSE, EventsRequested)
                EXCEPT !.hist = <<currentPage, a.target>>]
    /\ UNCHANGED <<selectedDate, monthRange, chatVars, vcVars, authVars, voiceVars,
                   platVars, modalVars, caVars, taps>>

\* everything held in memory, as it is when the app has just been launched
\* (the mount effect of AuthProvider has called getItem('token'))
Launched ==
  /\ auth = authInit
  /\ authTasks = SetToBag({AuthTask("load", "getToken", storage.token, Null)})
  /\ submitting = FALSE
  /\ cv = cvInit
  /\ cvTasks = EmptyBag
  /\ silence = <<>>
  /\ intervals = {}
  /\ recorders = {}
  /\ nextRec = 0
  /\ currentPage = TodayPage
  /\ selectedDate = 0
  /\ monthRange = <<>>
  /\ tv = tvInit
  /\ tvTasks = EmptyBag
  /\ showChores = FALSE
  /\ cmGen = 0
  /\ cm = cmInit
  /\ cmTasks = EmptyBag
  /\ ca = caInit
  /\ caTasks = EmptyBag
  /\ vc = vcInit
  /\ vcTasks = EmptyBag
  /\ chat = chatInit
  /\ chatTasks = EmptyBag
  /\ isSwiping = FALSE
  /\ anims = EmptyBag
  /\ pan = panInit
  /\ alert = ""

\* the storage holds the credentials of an earlier session, or nothing
Init ==
  /\ storage \in {[token |-> Null, user |-> Null],
                  [token |-> <<"token", 1>>, user |-> <<"user", 1>>]}
  /\ lastLogin = Null
  /\ Launched
  /\ taps = [all |-> 0, mic |-> 0]
  /\ ev = Ev("launch", FALSE, {})

\* the app is closed and opened again: the memory of the process is lost
\* with everything it had in flight, AsyncStorage is kept
Restart ==
  /\ ev.op # "launch"
  /\ auth' = authInit
  /\ authTasks' = SetToBag({AuthTask("load", "getToken", storage.token, Null)})
  /\ submitting' = FALSE
  /\ cv' = cvInit /\ cvTasks' = EmptyBag /\ silence' = <<>> /\ intervals' = {}
  /\ recorders' = {} /\ nextRec' = 0
  /\ currentPage' = TodayPage /\ selectedDate' = 0 /\ monthRange' = <<>>
  /\ tv' = tvInit /\ tvTasks' = EmptyBag
  /\ showChores' = FALSE /\ cmGen' = 0 /\ cm' = cmInit /\ cmTasks' = EmptyBag
  /\ ca' = caInit /\ caTasks' = EmptyBag
  /\ vc' = vcInit /\ vcTasks' = EmptyBag
  /\ alert' = ""
  /\ ev' = Ev("launch", FALSE, {})
  /\ chat' = chatInit /\ chatTasks' = EmptyBag
  /\ isSwiping' = FALSE /\ anims' = EmptyBag /\ pan' = panInit
  /\ UNCHANGED <<storage, lastLogin, taps>>

NextLoad ==
  \/ authLoadToken
  \/ authLoadUser

NextVoice ==
  \/ HandlePress
  \/ cvStartConversationResolve
  \/ cvRequestPermissionsResolve
  \/ cvSetAudioModeResolve
  \/ cvCreateRecordingResolve
  \/ cvStartThrows
  \/ cvMeteringTick
  \/ cvMeteringStatus
  \/ cvStopAndUnloadResolve
  \/ cvStopAndUnloadReject
  \/ cvFetchAudioResolve
  \/ cvBlobResolve
  \/ cvProcessThrows
  \/ cvSendVoiceMessageResolve
  \/ cvCreateSoundResolve
  \/ cvPlayAsyncResolve
  \/ cvPlayAudioThrows
  \/ cvSpeakDone

NextOpen ==
  \/ cmOpen
  \/ cmClose

NextChoresVoice ==
  \/ caPress
  \/ caPrepareResolve
  \/ caCreateRecordingResolve
  \/ caStartThrows
  \/ caStopAndUnloadResolve
  \/ caStopAndUnloadReject
  \/ caFetchAudioResolve
  \/ caProcessThrows
  \/ caVoiceCommandResolve

NextToday ==
  \/ tvGetEventsResolve
  \/ tvGetEventsReject

NextModal ==
  \/ cmGetChoresResolve
  \/ cmGetChoresReject
  \/ cmRefresh
  \/ handlePickUp
  \/ handleComplete
  \/ handleDelete
  \/ cmChangeText
  \/ handleCreateChore
  \/ cmMutationResolve
  \/ cmMutationReject

NextAuth ==
  \/ Restart
  \/ authSubmit
  \/ authLoginResolve
  \/ authLoginRefused
  \/ authLoginTokenStored
  \/ authLoginDone
  \/ authLoginStoreThrows
  \/ authLogout

NextVoiceCommand ==
  \/ vcMount
  \/ vcPermissionsResolve
  \/ vcPermissionsReject
  \/ handleVoiceCommand
  \/ vcSetAudioModeResolve
  \/ vcCreateRecordingResolve
  \/ vcStartThrows
  \/ vcStopAndUnloadResolve
  \/ vcStopAndUnloadReject
  \/ vcFetchAudioResolve
  \/ vcProcessThrows
  \/ vcProcessResolve
  \/ vcSpeakDone

NextChat ==
  \/ chatMount
  \/ chatPermissionsSettle
  \/ chatStartConversationResolve
  \/ chatStartConversationReject
  \/ chatHandleVoiceCommand
  \/ chatSetAudioModeResolve
  \/ chatCreateRecordingResolve
  \/ chatStartThrows
  \/ chatStopAndUnloadSettle
  \/ chatFetchAudioResolve
  \/ chatProcessThrows
  \/ chatSendVoiceMessageResolve
  \/ chatFeedbackDone
  \/ clearConversation

\* the asynchronous operations that have been started and not yet settled
InFlight ==
  BagCardinality(authTasks) + BagCardinality(cvTasks) + BagCardinality(caTasks)
    + BagCardinality(tvTasks) + BagCardinality(cmTasks) + BagCardinality(vcTasks)

\* the two voice hooks and the platform recorder
Next == NextLoad \/ NextVoice \/ NextOpen \/ NextChoresVoice

Spec == Init /\ [][Next]_vars

\* the steps that are not gestures: a pending platform or network call
\* completes or fails, the metering interval fires
NextSettle ==
  \/ NextLoad
  \/ cvStartConversationResolve \/ cvRequestPermissionsResolve \/ cvSetAudioModeResolve
  \/ cvCreateRecordingResolve \/ cvStartThrows \/ cvMeteringTick \/ cvMeteringStatus
  \/ cvStopAndUnloadResolve \/ cvStopAndUnloadReject \/ cvFetchAudioResolve
  \/ cvBlobResolve \/ cvProcessThrows \/ cvSendVoiceMessageResolve
  \/ cvCreateSoundResolve \/ cvPlayAsyncResolve \/ cvPlayAudioThrows \/ cvSpeakDone
  \/ caPrepareResolve \/ caCreateRecordingResolve \/ caStartThrows
  \/ caStopAndUnloadResolve \/ caStopAndUnloadReject \/ caFetchAudioResolve
  \/ caProcessThrows \/ caVoiceCommandResolve

\* the two voice hooks when no pending call stays pending forever
SpecLive == Spec /\ WF_vars(NextSettle)

\* TodayView under the navigation of voice responses
SpecToday == Init /\ [][NextLoad \/ ctxVoiceNavigation \/ NextToday]_vars

\* ChoresModal with its voice assistant
SpecChores == Init /\ [][NextLoad \/ NextOpen \/ NextChoresVoice \/ NextModal]_vars

\* AuthProvider and AuthScreen
SpecAuth == Init /\ [][NextLoad \/ NextAuth]_vars

\* ConversationalVoiceView, the Chat page of the App that has that page
SpecChat == Init /\ [][NextChat]_vars

\* the pages of the calendar: swipes and the navigation of voice responses
NextSwipe ==
  \/ panBegin
  \/ onGestureEvent
  \/ panEnd
  \/ swipeAnimationDone

SpecSwipe == Init /\ [][NextLoad \/ ctxVoiceNavigation \/ NextToday \/ NextSwipe]_vars

\* what is on the screen: loading, login and logout, and the gestures on
\* the pages and on the two floating buttons
NextScreen ==
  /\ NextLoad \/ NextAuth \/ NextToday \/ NextOpen \/ NextSwipe \/ HandlePress
  /\ taps'.all <= MaxAppTaps

SpecScreen == Init /\ [][NextScreen]_vars

\* extractDateFromText on every text and every day of the week
SpecDates == Init /\ [][cvExtractDate]_vars

\* what bounds a run of the whole app: the operations in flight at a time
\* and the gestures made
Bounded == InFlight' <= MaxInFlight /\ taps'.all <= MaxAppTaps

\* everything that calls the backend
NextApp ==
  /\ NextLoad \/ NextVoice \/ NextToday \/ NextOpen \/ NextModal
  /\ Bounded

SpecApp == Init /\ [][NextApp]_vars

\* the two voice hooks in a bounded run: the invocations of the hooks in
\* flight at a time and the gestures made
NextHooks ==
  /\ Next
  /\ BagCardinality(cvTasks') + BagCardinality(caTasks') <= MaxInFlight
  /\ taps'.all <= MaxAppTaps

SpecHooks == Init /\ [][NextHooks]_vars

\* the conversational hook in the App with the floating mic and
\* VoiceCommandView in the App with the Voice page
NextFeedback ==
  /\ NextLoad \/ NextVoice \/ NextToday \/ NextVoiceCommand
  /\ Bounded

SpecFeedback == Init /\ [][NextFeedback]_vars

\* ------------------------------------------------------------ properties
Last(h) == h[Len(h)]

IsPrefix(h, c) == Len(h) <= Len(c) /\ \A i \in 1..Len(h) : h[i] = c[i]

StopEnded == {"stopListening.done", "stopListening.returned", "stopListening.threw"}

\* C1 (as claimed): at any moment at most one audio recording is active in
\* the whole app
C1_OneActiveRecording == Cardinality(recorders) <= 1

\* C2 (as claimed): once a stopListening that was called on a held recording
\* has finished, normally or by throwing, the hook holds no recording
C2_StopReleasesRecording ==
  /\ ev.op \in StopEnded => cv.recordingRef = NoRec
  /\ ev.op \in {"chores." \o op : op \in StopEnded} => ca.recordingRef = NoRec

\* the steps of a stopped recording whose backend call succeeds
SpokenSteps == <<"stopAndUnload", "sendVoiceMessage", "response", "navigate", "speak">>
PlayedSteps ==
  <<"stopAndUnload", "sendVoiceMessage", "response", "navigate", "playAudioResponse", "played">>
PlayFailedSteps ==
  <<"stopAndUnload", "sendVoiceMessage", "response", "navigate", "playAudioResponse",
    "playFailed">>

InOrder(h) == IsPrefix(h, SpokenSteps) \/ IsPrefix(h, PlayedSteps) \/ IsPrefix(h, PlayFailedSteps)

\* C3: a recording stopped through stopListening of useConversationalVoice
\* goes through stop-and-unload, upload, response, navigation update and only
\* then playback or speech, in this order and with none skipped: the recorder
\* is released before the upload, and a response is played or spoken only
\* after the navigation of that response has been applied
C3_PipelineOrder ==
  /\ \A t \in DOMAIN cvTasks :
        t.fn = "stop" =>
          /\ InOrder(t.hist)
          /\ t.pc \in {"sendVoiceMessage", "speak", "createSound", "playAsync"}
               => t.rec \notin recorders /\ Len(t.hist) >= 2
          /\ t.pc \in {"speak", "createSound", "playAsync"} => Len(t.hist) = 5
  /\ ev.op \in StopEnded => InOrder(ev.hist)
  /\ ev.op = "stopListening.done" => Len(ev.hist) >= 5
  /\ ev.op = "sendVoiceMessage.ok" =>
        \E t \in DOMAIN cvTasks :
          /\ Len(t.hist) = 5
          /\ currentPage = Navigate(t.res).page
          /\ selectedDate = Navigate(t.res).date
          /\ monthRange = Navigate(t.res).range

\* C3 witness: a stopped recording was answered and its message spoken
C3_Witness == ev.op = "stopListening.done" /\ ev.hist = SpokenSteps /\ currentPage = MonthPage

\* C4 (as claimed): whenever processing a stopped recording fails, the user
\* is shown an alert or an inline error text, at every microphone entry point
C4_FailureIsShown ==
  /\ ev.op \in {"stopListening.threw", "chores.stopListening.threw"} =>
        alert # "" \/ (showChores /\ cm.error)
  /\ ev.op = "voice.stopRecording.failed" => alert # ""
  /\ ev.op = "voice.processVoiceCommand.failed" =>
        vc.lastResponse \in {"Error: " \o ErrorMessage(e) : e \in SUBSET FileNotOk
                                \cup {HttpError(st) : st \in Statuses}}

C10_TapWhileListeningStops ==
  ev.op = "handlePress.stop" => ~cv.isListening /\ cv.isProcessing

\* C5: no request is re-sent automatically: the step in which the app
\* learns that a call failed (a backend call or any other awaited
\* operation) makes no call to the backend; requests are only issued by a
\* gesture, a navigation change or the success of an earlier operation
C5_NoAutomaticResend == ev.failed => ev.reqs = {}

\* C5 witness: the upload of a stopped recording failed (stopAndUnload and
\* sendVoiceMessage were done, nothing after) and nothing is in flight
C5_Witness ==
  /\ ev.op = "stopListening.threw"
  /\ ev.hist = <<"stopAndUnload", "sendVoiceMessage">>
  /\ cvTasks = EmptyBag

\* the getEvents call of the latest run of the TodayView effect is pending
EventsPending == \E t \in DOMAIN tvTasks : t.mounted

\* C6: TodayView shows the result of the latest selectedDate: while the
\* latest getEvents call is pending the spinner is shown whatever older
\* calls answer; once it has answered the spinner is gone and the list, if
\* no error is shown, is the one returned for the current selectedDate; an
\* answer that is applied is that of the current selectedDate
C6_LatestDateWins ==
  Rendered /\ currentPage = TodayPage =>
    /\ EventsPending => tv.loading
    /\ ~EventsPending => ~tv.loading /\ (~tv.error => tv.events = selectedDate)
    /\ ev.op = "getEvents.ok" => ~tv.error /\ tv.events = selectedDate
    /\ ev.op = "getEvents.failed" => tv.error

\* C6 witness: the answer for an earlier date arrived after the answer for
\* the latest date and was ignored
C6_Witness ==
  /\ Rendered /\ currentPage = TodayPage
  /\ ev.op = "getEvents.ignored" /\ ~ev.failed
  /\ tvTasks = EmptyBag
  /\ selectedDate # 0 /\ tv.events = selectedDate

\* nothing that can change the list of the mounted ChoresModal is pending
ChoresSettled ==
  /\ \A t \in DOMAIN cmTasks : ~Live(t)
  /\ caTasks = EmptyBag

\* C7 (as claimed): once every request of the mounted ChoresModal has
\* completed, the list it shows is the result of the getChores call that was
\* issued last
C7_LatestChoresShown ==
  ListShown /\ ChoresSettled /\ cm.lastReq > 0 => cm.chores = cm.lastReq

\* C8 (as claimed): after a login has returned true, with no logout since
\* it was submitted, a restart of the app ends its loading phase with the
\* token and the user of that login, and the main app is rendered
C8_LoginSurvivesRestart ==
  ev.op = "load.done" /\ lastLogin # Null =>
    auth.token = lastLogin[1] /\ auth.user = lastLogin[2] /\ Rendered

\* C11 (as claimed): a recording is created only after the microphone
\* permission has been granted: a start whose permission request was not
\* answered with a grant creates no recording, and VoiceCommandView goes on
\* to create a recording only when it has the permission
C11_RecordingNeedsPermission ==
  /\ ev.op \in {"createRecording.ok", "chores.createRecording.ok", "voice.createRecording.ok"}
       => ev.hist = <<TRUE>>
  /\ \A t \in DOMAIN vcTasks :
       t.fn = "startRecording" /\ t.pc \in {"setAudioMode", "createRecording"}
         => vc.hasPermission

\* C12 (as claimed): VoiceCommandView reports each kind of failure with its
\* own message: HTTP 404, 500 and 413 with theirs, a recorded audio file that
\* cannot be read with 'Error reading audio file. Please try recording
\* again.', a rejection of the platform with the network message or the
\* generic one, and every other failure with the generic message
C12_EachFailureItsMessage ==
  ev.op = "voice.processVoiceCommand.failed" =>
    LET err == ev.hist[1]
        shown == vc.lastResponse
    IN  /\ err = FileNotOk =>
              shown = "Error: Error reading audio file. Please try recording again."
        /\ err = HttpError("404") =>
              shown = "Error: API endpoint not found. Please check the server configuration."
        /\ err = HttpError("500") =>
              shown = "Error: Server error: The voice processing service is temporarily unavailable."
        /\ err = HttpError("413") =>
              shown = "Error: Audio file too large. Please try a shorter recording."
        /\ err = HttpError("400") =>
              shown = "Error: Sorry, I couldn't process your voice command. Please try again."
        /\ err \in PlatformErrors =>
              shown \in {"Error: Network error: Please check your internet connection and try again.",
                         "Error: Sorry, I couldn't process your voice command. Please try again."}

\* C13: the message list of ConversationalVoiceView alternates between
\* assistant and user messages: after any sequence of conversation starts,
\* processed voice messages and 'New Conversation' presses no two
\* consecutive messages of the list have the same type (and the list, when
\* not empty, ends with a message of the assistant)
C13_MessagesAlternate ==
  LET c == chat.conversation IN
  /\ \A i \in 1..(Len(c) - 1) : c[i] # c[i + 1]
  /\ c # <<>> => c[Len(c)] = "assistant"

\* C13 witness: a voice message that was in flight when 'New Conversation'
\* was pressed is answered before the new conversation has started: the
\* list begins with a message of the user
C13_Witness == chat.conversation = <<"user", "assistant">>

\* C14 (as claimed): for every current weekday and every weekday W, a text
\* that contains 'next W' and none of 'today', 'tomorrow', 'yesterday' gives
\* the date that falls on W and lies 7 to 13 days after today
C14_NextWeekdayAnyNamed ==
  ev.op = "extractDateFromText" =>
    LET day == ev.hist[1]
        text == ev.hist[2]
        days == ev.hist[3]
    IN  text.rel = {} =>
          \A W \in text.next :
            days \in 7..13 /\ (day + days) % 7 = W

\* C14 (amended): with none of 'today', 'tomorrow', 'yesterday' in the text,
\* the first weekday W, in the order Sunday to Saturday, that the text names
\* decides: when the text contains 'next W' the result is the date that
\* falls on W and lies 7 to 13 days after today, whatever weekdays later in
\* that order the text names as well
C14_NextWeekdayFirstListed ==
  ev.op = "extractDateFromText" =>
    LET day == ev.hist[1]
        text == ev.hist[2]
        days == ev.hist[3]
    IN  text.rel = {} =>
          \A W \in text.next :
            (\A V \in text.next \cup text.bare : V >= W) =>
               days \in 7..13 /\ (day + days) % 7 = W

\* C14 witness: the text names the weekday of today with 'next' and a later
\* weekday too: the result is a week from today
C14_Witness ==
  /\ ev.op = "extractDateFromText"
  /\ ev.hist[2].rel = {} /\ ev.hist[2].next = {ev.hist[1], 6} /\ ev.hist[1] = 2
  /\ ev.hist[3] = 7

\* C15 (as claimed): the Voice command view is the first tab: on launch,
\* before any swipe or voice navigation, the page shown (page index 0) is
\* the Voice command view
C15_VoiceIsFirstTab ==
  Rendered /\ taps.all = 0 /\ ev.op \in {"load.done", "getEvents.ok", "getEvents.failed"}
    => currentPage = 0 /\ CurrentComponent = "Voice"

\* C16 (as claimed): after every call of stopListening that sets
\* isProcessing to true, isProcessing eventually returns to false, given
\* that every platform and network call eventually completes or fails; the
\* microphone button never stays disabled forever, also when the stopped
\* recording has no URI and, in the chores assistant, when there is no token
C16_ProcessingEnds ==
  /\ cv.isProcessing ~> ~cv.isProcessing
  /\ ca.isProcessing ~> ~ca.isProcessing

\* C17 (as claimed): once startListening has created the recording (having
\* started a conversation when there was none), every stop of that
\* recording, by a tap or by the silence auto-stop, processes the audio with
\* the conversation id that startConversation returned: no stop runs
\* without a conversation id, so none fails with 'No conversation ID'
C17_StopHasConversationId ==
  \A t \in DOMAIN cvTasks :
    t.fn = "stop" => t.cid # NoConv /\ t.cid = cv.conversationId

\* C18 (as claimed): each recording is stopped and uploaded at most once:
\* also when a tap on stop and the silence auto-stop overlap, no recording
\* has more than one stopListening working on it (one call of
\* stopAndUnloadAsync, one upload)
C18_StoppedOnce ==
  \A r \in 1..nextRec :
    BagCardinality([t \in {u \in DOMAIN cvTasks : u.fn = "stop" /\ u.rec = r}
                      |-> cvTasks[t]]) <= 1

\* C19: in useConversationalVoice and in useChoresVoiceAssistant
\* isListening and isProcessing are never both true, after any sequence of
\* start and stop calls, silence auto-stops and successful or failed
\* asynchronous completions
C19_ListeningXorProcessing ==
  /\ ~(cv.isListening /\ cv.isProcessing)
  /\ ~(ca.isListening /\ ca.isProcessing)

\* C19 witness: the silence auto-stop has ended listening and started
\* processing
C19_Witness == ev.op = "metering.autoStop" /\ cv.isProcessing /\ ~cv.isListening

\* C20: while recording, the silence auto-stop calls stopListening exactly
\* when 15 metering samples in a row (3 seconds of 200 ms samples) have been
\* below -50 dB: after every sample the silence counted by the callback is
\* 200 ms times the number of samples below -50 dB it has seen since the
\* last sample at or above -50 dB (which sets both back to zero), the
\* callback calls stopListening when that number is 15 or more (counted up
\* to 15), and a sample that does not stop has seen fewer than 15 (a status
\* without a metering number is no sample and leaves no history)
C20_AutoStopAfter15Quiet ==
  /\ ev.op = "metering.autoStop" => ev.hist = <<15, 15 * 200>>
  /\ ev.op = "metering.status" /\ ev.hist # <<>> =>
        ev.hist[1] < 15 /\ ev.hist[2] = ev.hist[1] * 200

\* C20 witness: the 15th quiet sample in a row has stopped the recording
C20_Witness ==
  /\ ev.op = "metering.autoStop" /\ ev.hist[1] = SilenceLimit \div MeterPeriod
  /\ \E t \in DOMAIN cvTasks : t.fn = "stop" /\ t.pc = "stopAndUnload"

C22_PageInBounds ==
  /\ currentPage \in 0..(Len(pages) - 1)
  /\ safeCurrentPage = currentPage
  /\ \A a \in DOMAIN anims : a.target \in 0..(Len(pages) - 1)

\* C22 witness: on the last page, reached by a swipe or a voice response, a
\* gesture event past the threshold towards a page that does not exist
\* started nothing
C22_Witness ==
  /\ ev.op = "pan.none" /\ ev.hist = <<"left">>
  /\ currentPage = Len(pages) - 1

\* C23: a single continuous swipe gesture changes the current page by at
\* most one: gesture events arriving while a page transition is in progress
\* are ignored, and gesture events of the same gesture arriving after the
\* transition has completed do not start a second transition
C23_OneTransitionPerGesture ==
  /\ pan.started <= 1 /\ pan.done <= 1
  /\ ev.op = "pan.swipe" => BagCardinality(anims) = 1

\* C24: when a swipe transition animation completes, the page it sets is
\* adjacent (one more or one less) to the page that is current at that
\* moment, even if a voice response changed currentPage while the animation
\* was running (ev.hist: the page current when the callback ran, the page it
\* set)
C24_SwipeLandsNextToCurrent ==
  ev.op = "swipe.done" => ev.hist[2] \in {ev.hist[1] - 1, ev.hist[1] + 1}

\* C25: the calendar pages, the floating microphone button and the chores
\* button are rendered only while the auth token is non-null and loading is
\* false; while loading nothing is rendered, and when loading has ended
\* with no token only the AuthScreen is rendered.  A gesture on the pages or
\* on a floating button is made on a screen that shows them, a submit on a
\* screen that shows the AuthScreen only
C25_GatedByAuth ==
  /\ Screen \cap {"pages", "FloatingMicButton", "FloatingChoresButton"} # {}
        => auth.token # Null /\ ~auth.loading
  /\ auth.loading => Screen = {}
  /\ ~auth.loading /\ auth.token = Null => Screen = {"AuthScreen"}
  /\ ev.op \in {"pan.begin", "pan.swipe", "pan.none", "pan.ignored"} => "pages" \in Screen
  /\ ev.op \in {"handlePress.start", "handlePress.stop"} => "FloatingMicButton" \in Screen
  /\ ev.op = "chores.open" => "FloatingChoresButton" \in Screen
  /\ ev.op = "submit" => Screen = {"AuthScreen"}

\* C25 witness: after a logout the AuthScreen alone is shown, although the
\* chores modal had been opened and a recording started
C25_Witness ==
  /\ ev.op = "logout" /\ Screen = {"AuthScreen"}
  /\ showChores \/ cv.isListening

\* C26: whenever no login or logout operation is in flight (and the load
\* on mount has ended), the credentials in storage agree with those in
\* memory: the stored token and user are both present and equal to the
\* in-memory token and user, or both absent when logged out; also when
\* logout was called while a login was still writing to storage
C26_StorageAgreesWithMemory ==
  authTasks = EmptyBag /\ ~auth.loading =>
    storage.token = auth.token /\ storage.user = auth.user

====
